---- MODULE Spec2Model ----
(***************************************************************************)
(* VetUnal: page classification (TextClassifier.classify_page), its       *)
(* repair (PageResolver), patient record grouping and validation           *)
(* (PatientRecordGrouper), the workflow that runs them                     *)
(* (MainPDFProcessor.split_main_pdf_into_folders) and the GUI's worker     *)
(* threads and correction rendezvous (PDFApp).                             *)
(*                                                                         *)
(* Python lists of PageInfo objects are lists of references: a list is a   *)
(* sequence of object ids and `heap' maps an id to the object's fields.    *)
(* Indices written i, i + 1, ... are the 0-based indices of the source;    *)
(* At(l, i) reads l[i].                                                    *)
(***************************************************************************)
EXTENDS Integers, Sequences, FiniteSets, TLC

\* ---------------------------------------------------------------- bounds
MaxResolveLen == 6      \* longest page list handed to resolve
MaxRuleLen == 5         \* longest page list a single rule is called on
MaxGroupLen   == 5      \* longest page list handed to the grouper
MaxBucket     == 3      \* largest bucket of a record handed to validate
MaxRecords    == 2      \* longest record list handed to validate
MaxRuns       == 2      \* validate runs on one record list
MaxTwiceLen   == 5      \* longest page list resolved twice
MaxShift      == 1      \* largest page-number offset of the second list
MaxFragments  == 2      \* most fragments a page text is put together from
MaxScanPages  == 3      \* most pages of a scanned document
MaxFolders    == 2      \* most folder names handed to the workflow
MaxWorkers    == 2      \* most worker threads run_processing starts

\* ------------------------------------------------------------- PageType
UNKNOWN          == "UNKNOWN"
HISTORIA_CLINICA == "HISTORIA_CLINICA"
CEDULA           == "CEDULA"
RECIBO           == "RECIBO"
PageType         == {UNKNOWN, HISTORIA_CLINICA, CEDULA, RECIBO}

PageInfo(n, t) == [page_number |-> n, page_type |-> t]

VARIABLES
    \* resolve_unknown_page_types / PageResolver
    heap,            \* object id -> PageInfo fields
    callerPages,     \* the caller's list `pages' (object ids)
    before,          \* the caller's pages as they were when resolve was called
    pages,           \* PageResolver.pages (object ids)
    i,               \* cursor of apply_rules
    phase,           \* which apply_rules call of resolve is running, 1..4
    rpc,             \* "call", "scan", "returned", "idle"
    visited,         \* the apply_rules iterations so far: <<phase, i, categories then>>
    \* group_pages_into_patient_records
    group_pages,     \* the argument `pages' (PageInfo values)
    gi,              \* loop index of enumerate(pages)
    records,         \* the list `records'
    current_record,
    in_record,
    gpc,             \* "start", "loop", "done", "idle"
    \* validate_patient_records
    runs,            \* completed validate_patient_records calls
    \* two calls of resolve_unknown_page_types, one after the other
    run,             \* which call is running: 1, 2 (0: no such pair)
    first_result,    \* what the first call returned (PageInfo values)
    \* TextClassifier.classify_page
    text,            \* the argument `text'
    result,          \* the ClassificationResult returned
    cpc,             \* "call", "returned", "idle"
    \* MainPDFProcessor.split_main_pdf_into_folders
    wpc,             \* where the function is: "scan", "export", "resolve", "group",
                     \* "review", "corrected", "regroup", "count", "extract",
                     \* "done", "halted", "raised", "idle"
    wf_pages,        \* the local `pages' (object ids)
    corrected_data,  \* what correction_callback returned
    folder_names,    \* len(folder_names)
    extracted,       \* the records handed to extract_patient_record, in order
    log,             \* the calls made so far, in order
    \* PDFApp (gui/app_ui.py)
    processing,      \* self.processing (process button disabled, cancel enabled)
    ui_shown,        \* the correction frame is shown and the footer hidden
    wk,              \* worker thread -> where it is: "unborn", "pipeline", "event",
                     \* "scheduled", "waiting", "resumed", "finished"
    wk_event,        \* worker -> the Event it blocks on (0: none)
    wk_result,       \* worker -> what handle_record_correction returned to it
    correction_event,\* self.correction_event: an Event id (0: None)
    events_set,      \* the Events that are set
    correction_data, \* self.correction_data
    after_queue      \* calls handed to root.after, not yet run by the main loop

rvars == <<heap, callerPages, before, pages, i, phase, rpc, visited>>
gvars == <<group_pages, gi, current_record, in_record, gpc>>
tvars == <<run, first_result>>
cvars == <<text, result, cpc>>
wvars == <<wpc, wf_pages, corrected_data, folder_names, extracted, log>>
uvars == <<processing, ui_shown, wk, wk_event, wk_result, correction_event,
           events_set, correction_data, after_queue>>
xvars == <<tvars, cvars, wvars, uvars>>
vars  == <<heap, callerPages, before, pages, i, phase, rpc, visited,
           group_pages, gi, records, current_record, in_record, gpc, runs,
           run, first_result, text, result, cpc,
           wpc, wf_pages, corrected_data, folder_names, extracted, log,
           processing, ui_shown, wk, wk_event, wk_result, correction_event,
           events_set, correction_data, after_queue>>

\* the components a specification does not run
TwiceIdle == run = 0 /\ first_result = <<>>
ClassifyIdle == text = "" /\ result = <<>> /\ cpc = "idle"
NoData == [is_none |-> TRUE, items |-> <<>>]
WorkflowIdle ==
    /\ wpc = "idle" /\ wf_pages = <<>> /\ corrected_data = NoData
    /\ folder_names = 0 /\ extracted = <<>> /\ log = <<>>
\* app_ui.py:39-41  setup_variables, with no worker thread started yet
GuiStart ==
    /\ processing = FALSE /\ ui_shown = FALSE
    /\ wk = [w \in 1..MaxWorkers |-> "unborn"]
    /\ wk_event = [w \in 1..MaxWorkers |-> 0]
    /\ wk_result = [w \in 1..MaxWorkers |-> <<>>]
    /\ correction_event = 0 /\ events_set = {}
    /\ correction_data = <<>>
    /\ after_queue = <<>>
GuiIdle == GuiStart
XIdle == TwiceIdle /\ ClassifyIdle /\ WorkflowIdle /\ GuiIdle

\* ---------------------------------------------------------------- lists
At(l, k) == l[k + 1]

RECURSIVE SeqsUpTo(_, _)
\* all sequences over S of length 0..n
SeqsUpTo(S, n) ==
    IF n = 0 THEN {<<>>}
    ELSE LET shorter == SeqsUpTo(S, n - 1)
         IN  shorter \cup {Append(s, x) : s \in {t \in shorter : Len(t) = n - 1}, x \in S}

\* ========================================================== TextClassifier

\* text_classifier.py:33  s.lower(), on the letters the page texts use
UpperLetters == "ABCDEFGHIJKLMNOPQRSTUVWXYZÁÉÍÓÚÑ"
LowerLetters == "abcdefghijklmnopqrstuvwxyzáéíóúñ"

lower(c) ==
    IF \E k \in 1..Len(UpperLetters) : SubSeq(UpperLetters, k, k) = c
    THEN LET k == CHOOSE k \in 1..Len(UpperLetters) : SubSeq(UpperLetters, k, k) = c
         IN  SubSeq(LowerLetters, k, k)
    ELSE c

\* text_classifier.py:34  NFKD, then encode('ascii', 'ignore'): a letter with
\* a mark keeps its base letter, a compatibility character becomes its ASCII parts, any other
\* character outside ASCII is dropped
Marked    == "áéíóúñº"
BaseOf    == "aeiouno"
AsciiKept == "abcdefghijklmnopqrstuvwxyzABCDEFGHIJKLMNOPQRSTUVWXYZ0123456789 $.,:-"

nfkd_ascii(c) ==
    IF \E k \in 1..Len(Marked) : SubSeq(Marked, k, k) = c
    THEN LET k == CHOOSE k \in 1..Len(Marked) : SubSeq(Marked, k, k) = c
         IN  SubSeq(BaseOf, k, k)
    ELSE IF c = "½" THEN "12"
    ELSE IF \E k \in 1..Len(AsciiKept) : SubSeq(AsciiKept, k, k) = c THEN c
    ELSE ""

\* A slip: the text taken as it is
normalize_string_as_is(s) == s

RECURSIVE normalize_string(_)
normalize_string(s) ==
    IF s = "" THEN ""
    ELSE nfkd_ascii(lower(SubSeq(s, 1, 1))) \o normalize_string(SubSeq(s, 2, Len(s)))

\* text_classifier.py:39-53
historia_indicators ==
    <<"proceso salud", "historia clinica", "caninas", "datos del paciente",
      "origen y procedencia", "de la fauna">>
cedula_indicators ==
    <<"cedula de", "de colombia", "nacionalidad", "nuip",
      "indice derecho", "registraduria civil", "de expedicion", "NACIONAL">>
recibo_indicators ==
    <<"enel", "consumo", "de la cuenta", "factura", "suspension", "pago",
      "oportuno", "vanti", "referencia", "cuenta", "contrato",
      "para pagos", "predio", "comportamiento", "valor", "periodo", "medidor",
      "corresponsal bancario", "lectura", "servicio", "suspension">>

\* Python's `ind in norm' on strings
str_in(ind, norm) ==
    \E k \in 0..(Len(norm) - Len(ind)) : SubSeq(norm, k + 1, k + Len(ind)) = ind

\* [ind for ind in indicators if ind in norm]
matches(indicators, norm) ==
    LET found(ind) == str_in(ind, norm)
    IN  SelectSeq(indicators, found)

\* len(matches) / len(indicators), kept as the fraction it is
Fraction(n, d) == [num |-> n, den |-> d]

ClassificationResult(page_type, matched_indicators, confidence_score) ==
    [page_type |-> page_type, matched_indicators |-> matched_indicators,
     confidence_score |-> confidence_score]

\* A slip: the cedula branch tried before the historia branch
classify_page_cedula_first(t) ==
    LET norm             == normalize_string(t)
        historia_matches == matches(historia_indicators, norm)
        cedula_matches   == matches(cedula_indicators, norm)
        recibo_matches   == matches(recibo_indicators, norm)
    IN  IF cedula_matches # <<>>
        THEN ClassificationResult(CEDULA, cedula_matches,
                 Fraction(Len(cedula_matches), Len(cedula_indicators)))
        ELSE IF historia_matches # <<>>
        THEN ClassificationResult(HISTORIA_CLINICA, historia_matches,
                 Fraction(Len(historia_matches), Len(historia_indicators)))
        ELSE IF recibo_matches # <<>>
        THEN ClassificationResult(RECIBO, recibo_matches,
                 Fraction(Len(recibo_matches), Len(recibo_indicators)))
        ELSE ClassificationResult(UNKNOWN, <<>>, Fraction(0, 1))

classify_page(t) ==
    LET norm             == normalize_string(t)
        historia_matches == matches(historia_indicators, norm)
        cedula_matches   == matches(cedula_indicators, norm)
        recibo_matches   == matches(recibo_indicators, norm)
    IN  IF historia_matches # <<>>
        THEN ClassificationResult(HISTORIA_CLINICA, historia_matches,
                 Fraction(Len(historia_matches), Len(historia_indicators)))
        ELSE IF cedula_matches # <<>>
        THEN ClassificationResult(CEDULA, cedula_matches,
                 Fraction(Len(cedula_matches), Len(cedula_indicators)))
        ELSE IF recibo_matches # <<>>
        THEN ClassificationResult(RECIBO, recibo_matches,
                 Fraction(Len(recibo_matches), Len(recibo_indicators)))
        ELSE ClassificationResult(UNKNOWN, <<>>, Fraction(0, 1))

\* the call classify_page(text)
ClassifyPage ==
    /\ cpc = "call"
    /\ result' = classify_page(text)
    /\ cpc' = "returned"
    /\ UNCHANGED text

\* pieces of OCR text; a page text is some of them, one after the other
Fragments ==
    {"Historia Clínica ", "histo", "ria clinica", "Cédula de ", "NACIONAL ",
     "Fac", "øtura ", "suspensión del servicio ", "periºdo ½ "}

RECURSIVE TextsUpTo(_)
TextsUpTo(n) ==
    IF n = 0 THEN {""}
    ELSE LET shorter == TextsUpTo(n - 1)
         IN  shorter \cup {t \o f : t \in shorter, f \in Fragments}

\* ============================================================ PageResolver

\* pattern_rules.py:198  pages.copy(): a new list holding the same objects
ListCopy(l) == l

TypeAt(k) == heap[At(pages, k)].page_type

is_type(k, page_type) == 0 <= k /\ k < Len(pages) /\ TypeAt(k) = page_type

is_unknown(k) == is_type(k, UNKNOWN)

\* self.pages[k].page_type = t, on the heap h
SetType(h, k, t) == [h EXCEPT ![At(pages, k)].page_type = t]

\* What a rule call does: matched = (it returned an index), next = that index,
\* heap and pages = the objects and the list after the call.
NoMatch == [matched |-> FALSE, next |-> 0, heap |-> heap, pages |-> pages]
Match(n, h) == [matched |-> TRUE, next |-> n, heap |-> h, pages |-> pages]

\* A slip: the hole taken for a third HISTORIA page
rule_a_historia(k) ==
    IF /\ k + 4 < Len(pages)
       /\ is_type(k, HISTORIA_CLINICA)
       /\ is_type(k + 1, HISTORIA_CLINICA)
       /\ is_unknown(k + 2)
       /\ is_type(k + 3, RECIBO)
    THEN Match(k + 4, SetType(heap, k + 2, HISTORIA_CLINICA))
    ELSE NoMatch

rule_a(k) ==
    IF /\ k + 4 < Len(pages)
       /\ is_type(k, HISTORIA_CLINICA)
       /\ is_type(k + 1, HISTORIA_CLINICA)
       /\ is_unknown(k + 2)
       /\ is_type(k + 3, RECIBO)
    THEN Match(k + 4, SetType(heap, k + 2, CEDULA))
    ELSE NoMatch

\* A slip: the second hole left as it is
rule_b_one_hole(k) ==
    IF /\ k + 4 < Len(pages)
       /\ is_type(k, HISTORIA_CLINICA)
       /\ is_type(k + 1, HISTORIA_CLINICA)
       /\ is_unknown(k + 2)
       /\ is_unknown(k + 3)
       /\ is_type(k + 4, HISTORIA_CLINICA)
    THEN Match(k + 4, SetType(heap, k + 2, CEDULA))
    ELSE NoMatch

rule_b(k) ==
    IF /\ k + 4 < Len(pages)
       /\ is_type(k, HISTORIA_CLINICA)
       /\ is_type(k + 1, HISTORIA_CLINICA)
       /\ is_unknown(k + 2)
       /\ is_unknown(k + 3)
       /\ is_type(k + 4, HISTORIA_CLINICA)
    THEN Match(k + 4, SetType(SetType(heap, k + 2, CEDULA), k + 3, RECIBO))
    ELSE NoMatch

\* A slip: the cursor handed back as it came
rule_c_same_index(k) ==
    IF /\ k + 2 < Len(pages)
       /\ is_type(k, CEDULA)
       /\ is_unknown(k + 1)
       /\ is_type(k + 2, HISTORIA_CLINICA)
    THEN Match(k, SetType(heap, k + 1, RECIBO))
    ELSE NoMatch

rule_c(k) ==
    IF /\ k + 2 < Len(pages)
       /\ is_type(k, CEDULA)
       /\ is_unknown(k + 1)
       /\ is_type(k + 2, HISTORIA_CLINICA)
    THEN Match(k + 2, SetType(heap, k + 1, RECIBO))
    ELSE NoMatch

\* A slip: rule D filling the hole only
rule_d_hole_only(k) ==
    IF /\ k + 4 < Len(pages)
       /\ is_type(k, HISTORIA_CLINICA)
       /\ is_type(k + 1, HISTORIA_CLINICA)
       /\ is_unknown(k + 2)
       /\ is_type(k + 3, CEDULA)
       /\ is_type(k + 4, RECIBO)
    THEN Match(k + 4, SetType(heap, k + 2, CEDULA))
    ELSE NoMatch

rule_d(k) ==
    IF /\ k + 4 < Len(pages)
       /\ is_type(k, HISTORIA_CLINICA)
       /\ is_type(k + 1, HISTORIA_CLINICA)
       /\ is_unknown(k + 2)
       /\ is_type(k + 3, CEDULA)
       /\ is_type(k + 4, RECIBO)
    THEN Match(k + 4, SetType(SetType(heap, k + 2, CEDULA), k + 3, RECIBO))
    ELSE NoMatch

\* A slip: rule E without its test of the page at k + 4
rule_e_any_next(k) ==
    IF /\ k + 3 < Len(pages)
       /\ is_type(k, HISTORIA_CLINICA)
       /\ is_type(k + 1, HISTORIA_CLINICA)
       /\ is_unknown(k + 2)
       /\ is_type(k + 3, CEDULA)
    THEN Match(k + 3, SetType(SetType(heap, k + 2, CEDULA), k + 3, RECIBO))
    ELSE NoMatch

rule_e(k) ==
    IF /\ k + 3 < Len(pages)
       /\ is_type(k, HISTORIA_CLINICA)
       /\ is_type(k + 1, HISTORIA_CLINICA)
       /\ is_unknown(k + 2)
       /\ is_type(k + 3, CEDULA)
       /\ (k + 4 >= Len(pages) \/ is_type(k + 4, HISTORIA_CLINICA))
    THEN Match(k + 3, SetType(SetType(heap, k + 2, CEDULA), k + 3, RECIBO))
    ELSE NoMatch

rule_f(k) ==
    IF /\ k + 2 < Len(pages)
       /\ is_type(k, CEDULA)
       /\ is_unknown(k + 1)
       /\ is_type(k + 2, RECIBO)
    THEN Match(k + 2, SetType(heap, k + 1, RECIBO))
    ELSE NoMatch

\* A slip: the page after the hole rewritten
rule_g_next_page(k) ==
    IF /\ k + 2 < Len(pages)
       /\ is_type(k, RECIBO)
       /\ is_unknown(k + 1)
       /\ is_type(k + 2, HISTORIA_CLINICA)
    THEN Match(k + 2, SetType(heap, k + 2, RECIBO))
    ELSE NoMatch

rule_g(k) ==
    IF /\ k + 2 < Len(pages)
       /\ is_type(k, RECIBO)
       /\ is_unknown(k + 1)
       /\ is_type(k + 2, HISTORIA_CLINICA)
    THEN Match(k + 2, SetType(heap, k + 1, RECIBO))
    ELSE NoMatch

\* A slip rule_h could have: exchanging the two list elements (the PageInfo
\* objects) instead of their page_type fields.
rule_h_swaps_objects(k) ==
    IF /\ is_type(k - 1, HISTORIA_CLINICA)
       /\ is_type(k, RECIBO)
       /\ is_type(k + 1, CEDULA)
    THEN [matched |-> TRUE, next |-> k + 2, heap |-> heap,
          pages |-> [pages EXCEPT ![k + 1] = pages[k + 2], ![k + 2] = pages[k + 1]]]
    ELSE NoMatch

\* A slip: the page before the cursor looked at only when it is not the first
rule_h_after_first(k) ==
    IF /\ k - 1 > 0
       /\ is_type(k - 1, HISTORIA_CLINICA)
       /\ is_type(k, RECIBO)
       /\ is_type(k + 1, CEDULA)
    THEN Match(k + 2, SetType(SetType(heap, k, CEDULA), k + 1, RECIBO))
    ELSE NoMatch

rule_h(k) ==
    IF /\ is_type(k - 1, HISTORIA_CLINICA)
       /\ is_type(k, RECIBO)
       /\ is_type(k + 1, CEDULA)
    THEN Match(k + 2, SetType(SetType(heap, k, CEDULA), k + 1, RECIBO))
    ELSE NoMatch

\* A slip: the window one page short, range(max(0, k - 2), k)
has_historia_before_2(k) ==
    \E j \in (IF k - 2 > 0 THEN k - 2 ELSE 0) .. (k - 1) : is_type(j, HISTORIA_CLINICA)

\* A slip: the window taken from the page's number instead of its index
has_historia_before_by_number(k) ==
    LET n == heap[At(pages, k)].page_number - 1
    IN  \E j \in (IF n - 3 > 0 THEN n - 3 ELSE 0) .. (k - 1) : is_type(j, HISTORIA_CLINICA)

\* for j in range(max(0, k - 3), k): if is_type(j, HISTORIA_CLINICA)
has_historia_before(k) ==
    \E j \in (IF k - 3 > 0 THEN k - 3 ELSE 0) .. (k - 1) : is_type(j, HISTORIA_CLINICA)

rule_i(k) ==
    IF /\ k + 1 < Len(pages)
       /\ is_type(k, CEDULA)
       /\ is_type(k + 1, CEDULA)
    THEN Match(k + 2, IF has_historia_before(k)
                      THEN SetType(heap, k + 1, RECIBO) ELSE heap)
    ELSE NoMatch

\* A slip: rule J asking for a page after its window
rule_j_needs_next(k) ==
    IF /\ k + 3 < Len(pages)
       /\ is_type(k, CEDULA)
       /\ is_type(k + 1, RECIBO)
       /\ is_type(k + 2, CEDULA)
    THEN Match(k + 2, IF has_historia_before(k)
                      THEN SetType(heap, k + 2, RECIBO) ELSE heap)
    ELSE NoMatch

rule_j(k) ==
    IF /\ k + 2 < Len(pages)
       /\ is_type(k, CEDULA)
       /\ is_type(k + 1, RECIBO)
       /\ is_type(k + 2, CEDULA)
    THEN Match(k + 2, IF has_historia_before(k)
                      THEN SetType(heap, k + 2, RECIBO) ELSE heap)
    ELSE NoMatch

\* ---------------------------------- the list subscripts a rule call performs
\* self.pages[n] raises IndexError for n >= len and reads from the end of the
\* list for -len <= n < 0. The operators below give, for a rule called at
\* cursor k, the set of n for which it evaluates self.pages[n].

\* A slip: is_type without its range test
is_type_subscripts_unguarded(k) == {k}

\* is_type: self.pages[k] is evaluated only after 0 <= k < len(self.pages)
is_type_subscripts(k) == IF 0 <= k /\ k < Len(pages) THEN {k} ELSE {}

\* One operand of a rule's `and` chain: its value and the subscripts it performs
Cond(ok, idx) == [ok |-> ok, idx |-> idx]
IsType(k, t) == Cond(is_type(k, t), is_type_subscripts(k))

\* c1 and c2 and ...: operands are evaluated up to the first false one
RECURSIVE and_subscripts(_)
and_subscripts(cs) ==
    IF cs = <<>> THEN {}
    ELSE Head(cs).idx \cup (IF Head(cs).ok THEN and_subscripts(Tail(cs)) ELSE {})

\* if c1 and c2 and ...: body
if_subscripts(cs, body) ==
    and_subscripts(cs) \cup (IF \A n \in 1..Len(cs) : cs[n].ok THEN body ELSE {})

\* for j in range(max(0, k - 3), k): if is_type(j, HISTORIA_CLINICA): ... break
historia_loop_subscripts(k) ==
    LET lo == IF k - 3 > 0 THEN k - 3 ELSE 0
    IN  UNION {is_type_subscripts(j) :
                 j \in {j \in lo..(k - 1) :
                          \A q \in lo..(j - 1) : ~is_type(q, HISTORIA_CLINICA)}}

\* rule_a .. rule_j at cursor k, in this order; the body's subscripts are those
\* of its print calls and of its assignments
rule_subscripts(k) ==
    LET n == Len(pages)
        H == HISTORIA_CLINICA
    IN  << if_subscripts(<<Cond(k + 4 < n, {}), IsType(k, H), IsType(k + 1, H),
                           IsType(k + 2, UNKNOWN), IsType(k + 3, RECIBO)>>,
                         {k + 2}),
           if_subscripts(<<Cond(k + 4 < n, {}), IsType(k, H), IsType(k + 1, H),
                           IsType(k + 2, UNKNOWN), IsType(k + 3, UNKNOWN),
                           IsType(k + 4, H)>>,
                         {k + 2, k + 3}),
           if_subscripts(<<Cond(k + 2 < n, {}), IsType(k, CEDULA),
                           IsType(k + 1, UNKNOWN), IsType(k + 2, H)>>,
                         {k + 1}),
           if_subscripts(<<Cond(k + 4 < n, {}), IsType(k, H), IsType(k + 1, H),
                           IsType(k + 2, UNKNOWN), IsType(k + 3, CEDULA),
                           IsType(k + 4, RECIBO)>>,
                         {k + 2, k + 3}),
           if_subscripts(<<Cond(k + 3 < n, {}), IsType(k, H), IsType(k + 1, H),
                           IsType(k + 2, UNKNOWN), IsType(k + 3, CEDULA),
                           IF k + 4 >= n THEN Cond(TRUE, {}) ELSE IsType(k + 4, H)>>,
                         {k + 2, k + 3}),
           if_subscripts(<<Cond(k + 2 < n, {}), IsType(k, CEDULA),
                           IsType(k + 1, UNKNOWN), IsType(k + 2, RECIBO)>>,
                         {k + 1}),
           if_subscripts(<<Cond(k + 2 < n, {}), IsType(k, RECIBO),
                           IsType(k + 1, UNKNOWN), IsType(k + 2, H)>>,
                         {k + 1}),
           if_subscripts(<<IsType(k - 1, H), IsType(k, RECIBO), IsType(k + 1, CEDULA)>>,
                         {k, k + 1}),
           if_subscripts(<<Cond(k + 1 < n, {}), IsType(k, CEDULA), IsType(k + 1, CEDULA)>>,
                         historia_loop_subscripts(k)
                           \cup (IF has_historia_before(k) THEN {k + 1} ELSE {})),
           if_subscripts(<<Cond(k + 2 < n, {}), IsType(k, CEDULA),
                           IsType(k + 1, RECIBO), IsType(k + 2, CEDULA)>>,
                         historia_loop_subscripts(k)
                           \cup (IF has_historia_before(k) THEN {k + 2} ELSE {})) >>

\* A slip: the last two apply_rules calls exchanged
RulesOfPhase_j_before_i(p, k) ==
    CASE p = 1 -> <<rule_a(k), rule_b(k), rule_c(k), rule_d(k),
                    rule_e(k), rule_f(k), rule_g(k)>>
      [] p = 2 -> <<rule_h(k)>>
      [] p = 3 -> <<rule_j(k)>>
      [] p = 4 -> <<rule_i(k)>>

\* resolve(): the rule list of each apply_rules call, tried at cursor k
RulesOfPhase(p, k) ==
    CASE p = 1 -> <<rule_a(k), rule_b(k), rule_c(k), rule_d(k),
                    rule_e(k), rule_f(k), rule_g(k)>>
      [] p = 2 -> <<rule_h(k)>>
      [] p = 3 -> <<rule_i(k)>>
      [] p = 4 -> <<rule_j(k)>>

\* One iteration of apply_rules' while loop: the first rule that returns an
\* index acts and moves the cursor there; with none, the cursor advances by 1.
ApplyRulesStep(p) ==
    /\ rpc = "scan" /\ phase = p /\ i < Len(pages)
    /\ visited' = visited \cup {<<p, i, [k \in 1..Len(pages) |-> heap[pages[k]].page_type]>>}
    /\ LET rs   == RulesOfPhase(p, i)
           hits == {r \in 1..Len(rs) : rs[r].matched}
       IN  IF hits = {}
           THEN /\ i' = i + 1
                /\ UNCHANGED <<heap, pages>>
           ELSE LET first == CHOOSE r \in hits : \A q \in hits : r <= q
                IN  /\ i' = rs[first].next
                    /\ heap' = rs[first].heap
                    /\ pages' = rs[first].pages
    /\ UNCHANGED <<callerPages, before, phase, rpc>>

\* resolve_unknown_page_types: PageResolver(pages.copy()), then resolve()
\* enters its first apply_rules with i = 0
ResolveCall ==
    /\ rpc = "call"
    /\ pages' = ListCopy(callerPages)
    /\ i' = 0 /\ phase' = 1 /\ rpc' = "scan"
    /\ UNCHANGED <<heap, callerPages, before, visited>>

Phase1Step == ApplyRulesStep(1)
Phase2Step == ApplyRulesStep(2)
Phase3Step == ApplyRulesStep(3)
Phase4Step == ApplyRulesStep(4)

\* an apply_rules loop ends (i >= len) and the next apply_rules call starts
NextPhase ==
    /\ rpc = "scan" /\ i >= Len(pages) /\ phase < 4
    /\ phase' = phase + 1 /\ i' = 0
    /\ UNCHANGED <<heap, callerPages, before, pages, rpc, visited>>

\* the last apply_rules loop ends: return self.pages
ResolveReturn ==
    /\ rpc = "scan" /\ i >= Len(pages) /\ phase = 4
    /\ rpc' = "returned"
    /\ UNCHANGED <<heap, callerPages, before, pages, i, phase, visited>>

\* The caller's pages: objects 1..n with page numbers 1..n and any categories.
ResolveInit ==
    /\ \E ts \in SeqsUpTo(PageType, MaxResolveLen) :
          /\ heap = [o \in 1..Len(ts) |-> PageInfo(o, ts[o])]
          /\ callerPages = [o \in 1..Len(ts) |-> o]
          /\ before = [o \in 1..Len(ts) |-> PageInfo(o, ts[o])]
    /\ pages = <<>> /\ i = 0 /\ phase = 0 /\ rpc = "call" /\ visited = {}
    /\ group_pages = <<>> /\ gi = 0 /\ records = <<>>
    /\ current_record = <<>> /\ in_record = FALSE /\ gpc = "idle"
    /\ runs = 0
    /\ XIdle

ResolveNext ==
    \/ ResolveCall /\ UNCHANGED <<gvars, records, runs, xvars>>
    \/ Phase1Step /\ UNCHANGED <<gvars, records, runs, xvars>>
    \/ Phase2Step /\ UNCHANGED <<gvars, records, runs, xvars>>
    \/ Phase3Step /\ UNCHANGED <<gvars, records, runs, xvars>>
    \/ Phase4Step /\ UNCHANGED <<gvars, records, runs, xvars>>
    \/ NextPhase /\ UNCHANGED <<gvars, records, runs, xvars>>
    \/ ResolveReturn /\ UNCHANGED <<gvars, records, runs, xvars>>

SpecResolve == ResolveInit /\ [][ResolveNext]_vars

\* ------------------------------------------------- one rule called by itself
\* rule_a .. rule_j are public methods: one call of one of them, at any
\* cursor 0 .. len, on a resolver holding any list.
AllRules(k) ==
    RulesOfPhase(1, k) \o RulesOfPhase(2, k) \o RulesOfPhase(3, k) \o RulesOfPhase(4, k)

\* new_index = rule(i); phase keeps the number of the rule called (1 = rule_a,
\* .. 10 = rule_j), rpc what it returned
CallRule ==
    /\ rpc = "rule"
    /\ \E r \in 1..10 :
          LET res == AllRules(i)[r]
          IN  /\ heap' = res.heap
              /\ pages' = res.pages
              /\ i' = IF res.matched THEN res.next ELSE i
              /\ rpc' = IF res.matched THEN "index" ELSE "None"
              /\ phase' = r
    /\ UNCHANGED <<callerPages, before, visited>>

RulesInit ==
    /\ \E ts \in SeqsUpTo(PageType, MaxRuleLen) :
          /\ heap = [o \in 1..Len(ts) |-> PageInfo(o, ts[o])]
          /\ callerPages = [o \in 1..Len(ts) |-> o]
          /\ before = [o \in 1..Len(ts) |-> PageInfo(o, ts[o])]
          /\ pages = [o \in 1..Len(ts) |-> o]
          /\ i \in 0..Len(ts)
    /\ phase = 0 /\ rpc = "rule" /\ visited = {}
    /\ group_pages = <<>> /\ gi = 0 /\ records = <<>>
    /\ current_record = <<>> /\ in_record = FALSE /\ gpc = "idle"
    /\ runs = 0
    /\ XIdle

RulesNext == CallRule /\ UNCHANGED <<gvars, records, runs, xvars>>

SpecRules == RulesInit /\ [][RulesNext]_vars

\* The list resolve returned and the categories it holds
Returned == [k \in 1..Len(pages) |-> heap[pages[k]]]
CallerNow == [k \in 1..Len(callerPages) |-> heap[callerPages[k]]]

\* ------------------------------------------ resolve called a second time
\* A second call of resolve_unknown_page_types, on a list of new PageInfo
\* objects with the categories the first list had when it was handed over and
\* its page numbers moved by d.
SecondCall ==
    /\ rpc = "returned" /\ run = 1
    /\ \E d \in 0..MaxShift :
          LET n == Len(before)
          IN  /\ heap' = [o \in 1..(2 * n) |->
                            IF o <= n THEN heap[o]
                            ELSE PageInfo(before[o - n].page_number + d,
                                          before[o - n].page_type)]
              /\ callerPages' = [o \in 1..n |-> n + o]
              /\ before' = [o \in 1..n |->
                              PageInfo(before[o].page_number + d, before[o].page_type)]
    /\ first_result' = Returned
    /\ run' = 2
    /\ pages' = <<>> /\ i' = 0 /\ phase' = 0 /\ rpc' = "call" /\ visited' = {}

TwiceInit ==
    /\ \E ts \in SeqsUpTo(PageType, MaxTwiceLen) :
          /\ heap = [o \in 1..Len(ts) |-> PageInfo(o, ts[o])]
          /\ callerPages = [o \in 1..Len(ts) |-> o]
          /\ before = [o \in 1..Len(ts) |-> PageInfo(o, ts[o])]
    /\ pages = <<>> /\ i = 0 /\ phase = 0 /\ rpc = "call" /\ visited = {}
    /\ group_pages = <<>> /\ gi = 0 /\ records = <<>>
    /\ current_record = <<>> /\ in_record = FALSE /\ gpc = "idle"
    /\ runs = 0
    /\ run = 1 /\ first_result = <<>>
    /\ ClassifyIdle /\ WorkflowIdle /\ GuiIdle

TwiceNext ==
    \/ ResolveNext
    \/ SecondCall /\ UNCHANGED <<gvars, records, runs, cvars, wvars, uvars>>

SpecResolveTwice == TwiceInit /\ [][TwiceNext]_vars

\* ------------------------------------ resolve called on what it returned
\* pages = resolve_unknown_page_types(pages), once more on the returned list:
\* the same objects, with the categories the first call left
ResolveAgain ==
    /\ rpc = "returned" /\ run = 1
    /\ callerPages' = pages
    /\ before' = Returned
    /\ first_result' = Returned
    /\ run' = 2
    /\ pages' = <<>> /\ i' = 0 /\ phase' = 0 /\ rpc' = "call" /\ visited' = {}
    /\ UNCHANGED heap

AgainNext ==
    \/ ResolveNext
    \/ ResolveAgain /\ UNCHANGED <<gvars, records, runs, cvars, wvars, uvars>>

SpecResolveAgain == TwiceInit /\ [][AgainNext]_vars


\* ============================================================ PatientRecord

PatientRecord ==
    [historia_pages |-> <<>>, cedula_pages |-> <<>>, recibo_pages |-> <<>>,
     unknown_pages |-> <<>>, issues |-> <<>>]

sorted(l) == SortSeq(l, LAMBDA a, b : a < b)

\* A slip all_pages could have: the concatenation returned without sorted()
all_pages_unsorted(record) ==
    record.historia_pages \o record.cedula_pages \o
    record.recibo_pages \o record.unknown_pages

all_pages(record) ==
    sorted(record.historia_pages \o record.cedula_pages \o
           record.recibo_pages \o record.unknown_pages)

is_complete(record) ==
    /\ Len(record.historia_pages) > 0
    /\ Len(record.cedula_pages) > 0
    /\ Len(record.recibo_pages) > 0

\* A slip: >= 0 for > 0
has_issues_ge0(record) == Len(record.issues) >= 0 \/ Len(record.unknown_pages) >= 0

has_issues(record) == Len(record.issues) > 0 \/ Len(record.unknown_pages) > 0

\* ======================================== group_pages_into_patient_records

\* A slip: `>= 2' written `>= 1'
closes_on_historia_ge1(record, in_rec) ==
    \/ in_rec /\ Len(record.historia_pages) >= 1
    \/ /\ in_rec
       /\ Len(record.historia_pages) > 0
       /\ (Len(record.cedula_pages) > 0 \/ Len(record.recibo_pages) > 0)

\* A slip: `or' written `and' in the elif
closes_on_historia_and(record, in_rec) ==
    \/ in_rec /\ Len(record.historia_pages) >= 2
    \/ /\ in_rec
       /\ Len(record.historia_pages) > 0
       /\ (Len(record.cedula_pages) > 0 /\ Len(record.recibo_pages) > 0)

\* A slip: `>= 2' written `> 2'
closes_on_historia_gt2(record, in_rec) ==
    \/ in_rec /\ Len(record.historia_pages) > 2
    \/ /\ in_rec
       /\ Len(record.historia_pages) > 0
       /\ (Len(record.cedula_pages) > 0 \/ Len(record.recibo_pages) > 0)

\* The if / elif on a HISTORIA_CLINICA page: both branches append the current
\* record to records and start a new one.
closes_on_historia(record, in_rec) ==
    \/ in_rec /\ Len(record.historia_pages) >= 2
    \/ /\ in_rec
       /\ Len(record.historia_pages) > 0
       /\ (Len(record.cedula_pages) > 0 \/ Len(record.recibo_pages) > 0)

has_content(record) ==
    \/ Len(record.historia_pages) > 0
    \/ Len(record.cedula_pages) > 0
    \/ Len(record.recibo_pages) > 0
    \/ Len(record.unknown_pages) > 0

\* current_record.<bucket of page_type>.append(page_number)
AppendPage(record, page_type, page_number) ==
    CASE page_type = HISTORIA_CLINICA ->
             [record EXCEPT !.historia_pages = Append(@, page_number)]
      [] page_type = CEDULA ->
             [record EXCEPT !.cedula_pages = Append(@, page_number)]
      [] page_type = RECIBO ->
             [record EXCEPT !.recibo_pages = Append(@, page_number)]
      [] page_type = UNKNOWN ->
             [record EXCEPT !.unknown_pages = Append(@, page_number)]

\* if not pages: return []; otherwise the locals before the loop
GroupCall ==
    /\ gpc = "start"
    /\ records' = <<>>
    /\ IF group_pages = <<>>
       THEN /\ gpc' = "done"
            /\ UNCHANGED <<current_record, in_record, gi>>
       ELSE /\ current_record' = PatientRecord
            /\ in_record' = FALSE
            /\ gi' = 0
            /\ gpc' = "loop"
    /\ UNCHANGED group_pages

\* A slip: the if / elif that closes a record run for every page
GroupStep_closes_on_any_page ==
    /\ gpc = "loop" /\ gi < Len(group_pages)
    /\ LET page    == At(group_pages, gi)
           closing == /\ page.page_type \in PageType
                      /\ closes_on_historia(current_record, in_record)
           recs1   == IF closing THEN Append(records, current_record) ELSE records
           cur1    == IF closing THEN PatientRecord ELSE current_record
           cur2    == AppendPage(cur1, page.page_type, page.page_number)
           atEnd   == gi = Len(group_pages) - 1
       IN  /\ in_record' = TRUE
           /\ current_record' = cur2
           /\ records' = IF atEnd /\ has_content(cur2)
                         THEN Append(recs1, cur2) ELSE recs1
    /\ gi' = gi + 1
    /\ UNCHANGED <<group_pages, gpc>>

\* One iteration of `for i, page in enumerate(pages)', the end-of-pages check
\* of that iteration included.
GroupStep ==
    /\ gpc = "loop" /\ gi < Len(group_pages)
    /\ LET page    == At(group_pages, gi)
           closing == /\ page.page_type = HISTORIA_CLINICA
                      /\ closes_on_historia(current_record, in_record)
           recs1   == IF closing THEN Append(records, current_record) ELSE records
           cur1    == IF closing THEN PatientRecord ELSE current_record
           cur2    == AppendPage(cur1, page.page_type, page.page_number)
           atEnd   == gi = Len(group_pages) - 1
       IN  /\ in_record' = TRUE
           /\ current_record' = cur2
           /\ records' = IF atEnd /\ has_content(cur2)
                         THEN Append(recs1, cur2) ELSE recs1
    /\ gi' = gi + 1
    /\ UNCHANGED <<group_pages, gpc>>

\* the loop is exhausted: return records
GroupReturn ==
    /\ gpc = "loop" /\ gi >= Len(group_pages)
    /\ gpc' = "done"
    /\ UNCHANGED <<group_pages, gi, records, current_record, in_record>>

RECURSIVE IncreasingSeqs(_, _)
\* the strictly increasing sequences of numbers of lo..hi
IncreasingSeqs(lo, hi) ==
    IF lo > hi THEN {<<>>}
    ELSE LET rest == IncreasingSeqs(lo + 1, hi)
         IN  rest \cup {<<lo>> \o s : s \in rest}

MaxPageNo == MaxGroupLen + 1

\* The argument: pages with strictly increasing page numbers ns (gaps
\* allowed) and any categories.
GroupInputs(ns) ==
    { [k \in 1..Len(ns) |-> PageInfo(ns[k], ts[k])] : ts \in [1..Len(ns) -> PageType] }

AssembleInit ==
    /\ \E ns \in {n \in IncreasingSeqs(1, MaxPageNo) : Len(n) <= MaxGroupLen} :
          group_pages \in GroupInputs(ns)
    /\ gi = 0 /\ records = <<>>
    /\ current_record = <<>> /\ in_record = FALSE /\ gpc = "start"
    /\ heap = <<>> /\ callerPages = <<>> /\ before = <<>>
    /\ pages = <<>> /\ i = 0 /\ phase = 0 /\ rpc = "idle" /\ visited = {}
    /\ runs = 0
    /\ XIdle

AssembleNext ==
    \/ GroupCall /\ UNCHANGED <<rvars, runs, xvars>>
    \/ GroupStep /\ UNCHANGED <<rvars, runs, xvars>>
    \/ GroupReturn /\ UNCHANGED <<rvars, runs, xvars>>

SpecAssemble == AssembleInit /\ [][AssembleNext]_vars


\* ================================================ validate_patient_records

\* A slip: record.issues.clear() left out, so the list keeps what it held
clear_keeps(issues) == issues

\* record.issues.clear()
clear(issues) == <<>>

missing_historia(record) == record.historia_pages = <<>>
missing_cedula(record)   == record.cedula_pages = <<>>
missing_recibo(record)   == record.recibo_pages = <<>>

\* A slip: the unknown-pages issue added only for several unknown pages
contains_unknown_several(record) == Len(record.unknown_pages) > 1

contains_unknown(record) == record.unknown_pages # <<>>

\* A slip: `> 2' written `>= 2'
too_many_historia_ge(record) == Len(record.historia_pages) >= 2

too_many_historia(record) == Len(record.historia_pages) > 2

\* A slip: the limit of the RECIBO pages used for the CEDULA pages
too_many_cedula_gt2(record) == Len(record.cedula_pages) > 2

too_many_cedula(record) == Len(record.cedula_pages) > 1
too_many_recibo(record)   == Len(record.recibo_pages) > 2

cedula_without_historia(record) ==
    Len(record.historia_pages) = 0 /\ Len(record.cedula_pages) > 0

recibo_without_historia(record) ==
    Len(record.historia_pages) = 0 /\ Len(record.recibo_pages) > 0

\* A slip: the line above copied without changing the bucket tested
recibo_without_cedula_copied(record) ==
    Len(record.historia_pages) = 0 /\ Len(record.recibo_pages) > 0

recibo_without_cedula(record) ==
    Len(record.cedula_pages) = 0 /\ Len(record.recibo_pages) > 0

MsgMissingHistoria  == "Missing HISTORIA CLINICA pages"
MsgMissingCedula    == "Missing CEDULA pages"
MsgMissingRecibo    == "Missing RECIBO pages"
MsgUnknown(n)       == "Contains " \o ToString(n) \o " UNKNOWN pages"
MsgTooManyHistoria  == "More than 2 HISTORIA CLINICA pages found"
MsgTooManyCedula    == "More than 1 CEDULA page found"
MsgTooManyRecibo    == "More than 2 RECIBO pages found"
MsgCedulaNoHistoria == "Cedula page found without corresponding HISTORIA CLINICA"
MsgReciboNoHistoria == "Recibo page found without corresponding HISTORIA CLINICA"
MsgReciboNoCedula   == "Recibo page found without corresponding CEDULA"

\* the ifs of the loop body, in source order: condition and appended string
IssueChecks(record) ==
    << <<missing_historia(record), MsgMissingHistoria>>,
       <<missing_cedula(record), MsgMissingCedula>>,
       <<missing_recibo(record), MsgMissingRecibo>>,
       <<contains_unknown(record), MsgUnknown(Len(record.unknown_pages))>>,
       <<too_many_historia(record), MsgTooManyHistoria>>,
       <<too_many_cedula(record), MsgTooManyCedula>>,
       <<too_many_recibo(record), MsgTooManyRecibo>>,
       <<cedula_without_historia(record), MsgCedulaNoHistoria>>,
       <<recibo_without_historia(record), MsgReciboNoHistoria>>,
       <<recibo_without_cedula(record), MsgReciboNoCedula>> >>

RECURSIVE AppendIssues(_, _)
\* issues.append(string) for each check whose condition holds, in order
AppendIssues(issues, checks) ==
    IF checks = <<>> THEN issues
    ELSE AppendIssues(IF Head(checks)[1] THEN Append(issues, Head(checks)[2])
                      ELSE issues,
                      Tail(checks))

\* the body of `for i, record in enumerate(records)'
ValidateRecord(record) ==
    [record EXCEPT !.issues = AppendIssues(clear(@), IssueChecks(record))]

\* validate_patient_records(records): every record of the list, in place
Validate ==
    /\ runs < MaxRuns
    /\ records' = [k \in 1..Len(records) |-> ValidateRecord(records[k])]
    /\ runs' = runs + 1

\* ---- records handed to validate
FromTo(a, n) == [k \in 1..n |-> a + k]

\* a record with h, c, r, u pages in its buckets, numbered from first + 1, and
\* issues already in its list
RecordOf(first, h, c, r, u, prior) ==
    [historia_pages |-> FromTo(first, h),
     cedula_pages   |-> FromTo(first + h, c),
     recibo_pages   |-> FromTo(first + h + c, r),
     unknown_pages  |-> FromTo(first + h + c + r, u),
     issues |-> prior]

\* what a record's issues list may hold before a validate call
PriorIssues ==
    { <<>>,
      <<MsgMissingCedula>>,
      <<MsgTooManyHistoria, "left by an earlier pass">> }

\* Record lists of length 0..MaxRecords. The first record takes every
\* combination of bucket sizes and prior issues; the record at position n
\* takes the same sizes rotated by n - 1 buckets, so that every position of the
\* list sees every combination.
ValidateInputs ==
    { [n \in 1..len |->
          LET sz == <<h, c, r, u>>
              at(b) == sz[((b + n - 2) % 4) + 1]
          IN  RecordOf((n - 1) * (h + c + r + u), at(1), at(2), at(3), at(4), prior)] :
      h \in 0..MaxBucket, c \in 0..MaxBucket, r \in 0..MaxBucket,
      u \in 0..MaxBucket, prior \in PriorIssues, len \in 0..MaxRecords }

ValidateInit ==
    /\ records \in ValidateInputs
    /\ runs = 0
    /\ group_pages = <<>> /\ gi = 0
    /\ current_record = <<>> /\ in_record = FALSE /\ gpc = "idle"
    /\ heap = <<>> /\ callerPages = <<>> /\ before = <<>>
    /\ pages = <<>> /\ i = 0 /\ phase = 0 /\ rpc = "idle" /\ visited = {}
    /\ XIdle

ValidateNext == Validate /\ UNCHANGED <<rvars, gvars, xvars>>

SpecValidate == ValidateInit /\ [][ValidateNext]_vars


\* ============================================== classify_page, on its own

ClassifyInit ==
    /\ text \in TextsUpTo(MaxFragments)
    /\ result = <<>> /\ cpc = "call"
    /\ TwiceIdle /\ WorkflowIdle /\ GuiIdle
    /\ records = <<>> /\ runs = 0
    /\ group_pages = <<>> /\ gi = 0
    /\ current_record = <<>> /\ in_record = FALSE /\ gpc = "idle"
    /\ heap = <<>> /\ callerPages = <<>> /\ before = <<>>
    /\ pages = <<>> /\ i = 0 /\ phase = 0 /\ rpc = "idle" /\ visited = {}

ClassifyNext == ClassifyPage /\ UNCHANGED <<rvars, gvars, records, runs, tvars, wvars, uvars>>

SpecClassify == ClassifyInit /\ [][ClassifyNext]_vars


\* ========================== MainPDFProcessor.split_main_pdf_into_folders

\* processor.py:68-75  the PageInfo scan_all_pages builds for page n with OCR text t
ScannedPage(n, t) ==
    LET c == classify_page(t)
    IN  [page_number |-> n, page_type |-> c.page_type, text |-> t,
         matched_indicators |-> c.matched_indicators,
         confidence_score |-> c.confidence_score]

\* OCR texts of a page: one without any indicator and one for each category
PageTexts == {"", "Historia Clínica ", "Cédula de ", "Factura "}

\* the PageInfo objects a list refers to
Deref(h, l) == [k \in 1..Len(l) |-> h[l[k]]]

WfOthers == <<callerPages, before, pages, i, phase, rpc, visited,
              gi, current_record, in_record, records, runs, tvars, cvars, uvars>>

\* any exception inside the function: logged and raised again as RuntimeError
Raise ==
    /\ wpc' = "raised"
    /\ UNCHANGED <<heap, wf_pages, corrected_data, folder_names, extracted, log,
                   group_pages, gpc, WfOthers>>

\* A slip: `continue' in place of `raise' in the handler of lines 96-98, so
\* that the page after a failed one is appended next
ScanPage_skips_failed ==
    /\ wpc = "scan" /\ Len(heap) < MaxScanPages
    /\ \E t \in PageTexts, n \in {Len(heap) + 1, Len(heap) + 2} :
          heap' = Append(heap, ScannedPage(n, t))
    /\ UNCHANGED <<wf_pages, corrected_data, folder_names, extracted, log, wpc,
                   group_pages, gpc, WfOthers>>

\* processor.py:60-98  one iteration of scan_all_pages' loop.  No iteration
\* ends without an append or an exception, so page_num is len(pages) + 1 and
\* the local list is the objects made so far; page_count is not stored: the
\* loop may end after any page, as it does on a document of that many pages.
\* OCR or classification of the page fails: RuntimeError (lines 96-98)
ScanPage ==
    /\ wpc = "scan" /\ Len(heap) < MaxScanPages
    /\ \/ /\ \E t \in PageTexts :
                heap' = Append(heap, ScannedPage(Len(heap) + 1, t))
          /\ UNCHANGED <<wf_pages, corrected_data, folder_names, extracted, log,
                         wpc, group_pages, gpc, WfOthers>>
       \/ Raise

\* processor.py:100, main_processor.py:65  `return pages' and
\* pages = self.pdf_processor.scan_all_pages(...); get_page_count fails:
\* RuntimeError (processor.py:55, 102-103)
ScanAllPages ==
    /\ wpc = "scan"
    /\ \/ /\ wf_pages' = [o \in 1..Len(heap) |-> o]
          /\ wpc' = "export"
          /\ log' = Append(log, "scan_all_pages")
          /\ UNCHANGED <<heap, corrected_data, folder_names, extracted,
                         group_pages, gpc, WfOthers>>
       \/ Raise

\* main_processor.py:68  export_pages_for_testing(pages, ...): a pickle file is
\* written, with nothing to catch an I/O error; then line 78 calls
\* resolve_unknown_page_types(pages)
ExportAndCallResolve ==
    /\ wpc = "export"
    /\ \/ /\ wpc' = "resolve"
          /\ callerPages' = wf_pages
          /\ before' = Deref(heap, wf_pages)
          /\ rpc' = "call"
          /\ log' = Append(log, "resolve_unknown_page_types")
          /\ UNCHANGED <<heap, wf_pages, corrected_data, folder_names, extracted,
                         group_pages, gpc, pages, i, phase, visited,
                         gi, current_record, in_record, records, runs, tvars, cvars,
                         uvars>>
       \/ Raise

\* main_processor.py:78, 92  pages = <what resolve returned>;
\* patient_records = group_pages_into_patient_records(pages)
CallGroup ==
    /\ wpc = "resolve" /\ rpc = "returned"
    /\ wf_pages' = pages
    /\ group_pages' = Deref(heap, pages)
    /\ gpc' = "start"
    /\ wpc' = "group"
    /\ log' = Append(log, "group_pages_into_patient_records")
    /\ UNCHANGED <<heap, corrected_data, folder_names, extracted, WfOthers>>

\* main_processor.py:99  validate_patient_records(patient_records)
CallValidate ==
    /\ wpc = "group" /\ gpc = "done"
    /\ Validate
    /\ wpc' = "review"
    /\ log' = Append(log, "validate_patient_records")
    /\ UNCHANGED <<heap, wf_pages, corrected_data, folder_names, extracted,
                   group_pages, gpc, callerPages, before, pages, i, phase, rpc,
                   visited, gi, current_record, in_record, tvars, cvars, uvars>>

\* ---- what a correction_callback can hand back
\* a dict is a function on its keys; None is told apart from the empty dict
Dict(d) == [is_none |-> FALSE, items |-> d]

\* A slip: the default taken whatever the dict holds
get_default(data, key, default) == default

\* dict.get(key, default)
get(data, key, default) ==
    IF key \in DOMAIN data.items THEN data.items[key] ELSE default

\* A slip: `if corrected_data and 'pages' in corrected_data:'
truthy_with_pages(data) == ~data.is_none /\ "pages" \in DOMAIN data.items

\* `if corrected_data:' -- None and the empty dict are false
truthy(data) == ~data.is_none /\ DOMAIN data.items # {}

\* lists a callback can return as 'pages': the list it was given, that list
\* backwards, and that list without its second element
Reverse(l) == [k \in 1..Len(l) |-> l[Len(l) + 1 - k]]
ReturnedLists(l) ==
    {l, Reverse(l)} \cup
    (IF Len(l) >= 2 THEN {[k \in 1..(Len(l) - 1) |-> IF k = 1 THEN l[1] ELSE l[k + 1]]}
     ELSE {})

\* the values a callback can return for the list l it was given
CallbackResults(l) ==
    {NoData, Dict(<<>>)}
    \cup {Dict([k \in {"proceed"} |-> b]) : b \in BOOLEAN}
    \cup {Dict([k \in {"pages"} |-> r]) : r \in ReturnedLists(l)}
    \cup {Dict([k \in {"pages", "proceed"} |-> IF k = "pages" THEN r ELSE b]) :
             r \in ReturnedLists(l), b \in BOOLEAN}

\* app_ui.py:632-637  apply_corrections: pages_map[page_num].page_type = new_type,
\* on the objects of the list the callback was given; no edit is h itself
Corrections(h, l) ==
    {h} \cup {[h EXCEPT ![o].page_type = t] :
                o \in {l[k] : k \in 1..Len(l)}, t \in PageType}

\* A slip: `except Exception' that logs the error and goes on
CallCorrection_goes_on ==
    /\ wpc = "review"
    /\ \E k \in 1..Len(records) : has_issues(records[k])
    /\ \/ /\ corrected_data' \in CallbackResults(wf_pages)
          /\ heap' \in IF get(corrected_data', "pages", wf_pages) = wf_pages
                       THEN Corrections(heap, wf_pages) ELSE {heap}
          /\ wpc' = "corrected"
          /\ log' = Append(log, "correction_callback")
          /\ UNCHANGED <<wf_pages, folder_names, extracted, group_pages, gpc, WfOthers>>
       \/ /\ wpc' = "count"
          /\ log' = Append(log, "correction_callback raises")
          /\ UNCHANGED <<heap, wf_pages, corrected_data, folder_names, extracted,
                         group_pages, gpc, WfOthers>>

\* main_processor.py:105-121  `if correction_callback and any(r.has_issues ...)':
\* the callback is called and returns or raises; one that hands back the list
\* it was given (or no list) may have edited a page of it. What it raises is
\* caught at 119 and again at 161, and leaves as a RuntimeError (121, 176).
CallCorrection ==
    /\ wpc = "review"
    /\ \E k \in 1..Len(records) : has_issues(records[k])
    /\ \/ /\ corrected_data' \in CallbackResults(wf_pages)
          /\ heap' \in IF get(corrected_data', "pages", wf_pages) = wf_pages
                       THEN Corrections(heap, wf_pages) ELSE {heap}
          /\ wpc' = "corrected"
          /\ log' = Append(log, "correction_callback")
          /\ UNCHANGED <<wf_pages, folder_names, extracted, group_pages, gpc, WfOthers>>
       \/ /\ wpc' = "raised"
          /\ log' = Append(log, "correction_callback raises")
          /\ UNCHANGED <<heap, wf_pages, corrected_data, folder_names, extracted,
                         group_pages, gpc, WfOthers>>

\* main_processor.py:105  no callback was given, or no record has issues
SkipCorrection ==
    /\ wpc = "review"
    /\ wpc' = "count"
    /\ UNCHANGED <<heap, wf_pages, corrected_data, folder_names, extracted, log,
                   group_pages, gpc, WfOthers>>

\* A slip: the records of before the callback kept
AfterCorrection_keeps_records ==
    /\ wpc = "corrected"
    /\ IF truthy(corrected_data)
       THEN /\ wf_pages' = get(corrected_data, "pages", wf_pages)
            /\ wpc' = IF get(corrected_data, "proceed", FALSE) THEN "count" ELSE "halted"
            /\ UNCHANGED <<group_pages, gpc, log>>
       ELSE /\ wpc' = "count"
            /\ UNCHANGED <<wf_pages, group_pages, gpc, log>>
    /\ UNCHANGED <<heap, corrected_data, folder_names, extracted, WfOthers>>

\* main_processor.py:111-113  if corrected_data: pages = corrected_data.get(
\* 'pages', pages); patient_records = group_pages_into_patient_records(pages)
AfterCorrection ==
    /\ wpc = "corrected"
    /\ IF truthy(corrected_data)
       THEN /\ wf_pages' = get(corrected_data, "pages", wf_pages)
            /\ group_pages' = Deref(heap, wf_pages')
            /\ gpc' = "start"
            /\ wpc' = "regroup"
            /\ log' = Append(log, "group_pages_into_patient_records")
       ELSE /\ wpc' = "count"
            /\ UNCHANGED <<wf_pages, group_pages, gpc, log>>
    /\ UNCHANGED <<heap, corrected_data, folder_names, extracted, WfOthers>>

\* main_processor.py:114-118  validate_patient_records(patient_records);
\* if not corrected_data.get('proceed', False): return
Revalidate ==
    /\ wpc = "regroup" /\ gpc = "done"
    /\ Validate
    /\ wpc' = IF get(corrected_data, "proceed", FALSE) THEN "count" ELSE "halted"
    /\ log' = Append(log, "validate_patient_records")
    /\ UNCHANGED <<heap, wf_pages, corrected_data, folder_names, extracted,
                   group_pages, gpc, callerPages, before, pages, i, phase, rpc,
                   visited, gi, current_record, in_record, tvars, cvars, uvars>>

\* main_processor.py:133, 178-196  _validate_record_count: a warning at most
ValidateRecordCount ==
    /\ wpc = "count"
    /\ folder_names' \in 0..MaxFolders
    /\ wpc' = "extract"
    /\ log' = Append(log, "_validate_record_count")
    /\ UNCHANGED <<heap, wf_pages, corrected_data, extracted,
                   group_pages, gpc, WfOthers>>

\* main_processor.py:216-260  one iteration of _extract_patient_records' loop:
\* the record is handed to extract_patient_record, which can fail
ExtractRecord ==
    /\ wpc = "extract"
    /\ Len(extracted) < Len(records) /\ Len(extracted) < folder_names
    /\ \/ /\ extracted' = Append(extracted, records[Len(extracted) + 1])
          /\ log' = Append(log, "extract_patient_record")
          /\ UNCHANGED <<heap, wf_pages, corrected_data, folder_names, wpc,
                         group_pages, gpc, WfOthers>>
       \/ Raise

\* the loop ends: no record left, or `if i >= len(folder_names): break'
ExtractReturn ==
    /\ wpc = "extract"
    /\ Len(extracted) >= Len(records) \/ Len(extracted) >= folder_names
    /\ wpc' = "done"
    /\ UNCHANGED <<heap, wf_pages, corrected_data, folder_names, extracted, log,
                   group_pages, gpc, WfOthers>>

\* main_processor.py:390-403  process_complete_workflow after
\* split_main_pdf_into_folders has returned (from its last line or from the
\* bare `return' of line 118): the 'workflow_completed' progress event, then
\* `return folder_names'
WorkflowCompleted ==
    /\ wpc \in {"done", "halted"}
    /\ \A k \in 1..Len(log) : log[k] # "workflow_completed"
    /\ log' = Append(log, "workflow_completed")
    /\ UNCHANGED <<heap, wf_pages, corrected_data, folder_names, extracted, wpc,
                   group_pages, gpc, WfOthers>>

WorkflowInit ==
    /\ wpc = "scan" /\ wf_pages = <<>> /\ corrected_data = NoData
    /\ folder_names = 0 /\ extracted = <<>> /\ log = <<>>
    /\ TwiceIdle /\ ClassifyIdle /\ GuiIdle
    /\ records = <<>> /\ runs = 0
    /\ group_pages = <<>> /\ gi = 0
    /\ current_record = <<>> /\ in_record = FALSE /\ gpc = "idle"
    /\ heap = <<>> /\ callerPages = <<>> /\ before = <<>>
    /\ pages = <<>> /\ i = 0 /\ phase = 0 /\ rpc = "idle" /\ visited = {}

WorkflowNext ==
    \/ ScanPage
    \/ ScanAllPages
    \/ ExportAndCallResolve
    \/ ResolveNext
    \/ CallGroup
    \/ AssembleNext
    \/ CallValidate
    \/ CallCorrection
    \/ SkipCorrection
    \/ AfterCorrection
    \/ Revalidate
    \/ ValidateRecordCount
    \/ ExtractRecord
    \/ ExtractReturn
    \/ WorkflowCompleted

SpecWorkflow == WorkflowInit /\ [][WorkflowNext]_vars


\* ======================================================= PDFApp (the GUI)
\* The main loop runs one callback at a time; each worker thread runs
\* process_wrapper. A worker's pipeline is seen from outside: it asks for a
\* correction (handle_record_correction) or it does not.

GuiOthers == <<rvars, gvars, records, runs, tvars, cvars, wvars>>

\* app_ui.py:913-942  run_processing, from the process button: enabled when
\* self.processing is False and the footer is shown
run_processing ==
    /\ ~processing /\ ~ui_shown
    /\ \E w \in 1..MaxWorkers :
          /\ wk[w] = "unborn"
          /\ \A v \in 1..(w - 1) : wk[v] # "unborn"
          /\ wk' = [wk EXCEPT ![w] = "pipeline"]
    /\ processing' = TRUE
    /\ UNCHANGED <<ui_shown, wk_event, wk_result, correction_event, events_set,
                   correction_data, after_queue, GuiOthers>>

\* app_ui.py:972-984  cancel_processing, from the cancel button, the user
\* answering yes: set_processing_state(False) and labels, nothing else
cancel_processing ==
    /\ processing /\ ~ui_shown
    /\ processing' = FALSE
    /\ UNCHANGED <<ui_shown, wk, wk_event, wk_result, correction_event, events_set,
                   correction_data, after_queue, GuiOthers>>

\* app_ui.py:404  self.correction_event = threading.Event()
NewEvent(w) ==
    /\ wk[w] = "pipeline"
    /\ LET e == 1 + Cardinality({v \in 1..MaxWorkers : wk_event[v] # 0})
       IN  /\ correction_event' = e
           /\ wk_event' = [wk_event EXCEPT ![w] = e]
    /\ wk' = [wk EXCEPT ![w] = "event"]
    /\ UNCHANGED <<processing, ui_shown, wk_result, events_set, correction_data,
                   after_queue, GuiOthers>>

\* app_ui.py:405-411  self.correction_data = {'pages': all_pages, 'proceed':
\* False}; root.after(0, self.show_correction_ui, ...)
ScheduleUi(w) ==
    /\ wk[w] = "event"
    /\ correction_data' = [pages |-> w, proceed |-> FALSE]
    /\ after_queue' = Append(after_queue, [call |-> "show_correction_ui", of |-> w])
    /\ wk' = [wk EXCEPT ![w] = "scheduled"]
    /\ UNCHANGED <<processing, ui_shown, wk_event, wk_result, correction_event,
                   events_set, GuiOthers>>

\* app_ui.py:414  self.correction_event.wait(): the Event the attribute holds
\* now is the one the thread blocks on
Wait(w) ==
    /\ wk[w] = "scheduled"
    /\ wk_event' = [wk_event EXCEPT ![w] = correction_event]
    /\ wk' = [wk EXCEPT ![w] = "waiting"]
    /\ UNCHANGED <<processing, ui_shown, wk_result, correction_event, events_set,
                   correction_data, after_queue, GuiOthers>>

\* app_ui.py:416  the Event is set: return self.correction_data
Resume(w) ==
    /\ wk[w] = "waiting"
    /\ wk_event[w] \in events_set
    /\ wk_result' = [wk_result EXCEPT ![w] = correction_data]
    /\ wk' = [wk EXCEPT ![w] = "resumed"]
    /\ UNCHANGED <<processing, ui_shown, wk_event, correction_event, events_set,
                   correction_data, after_queue, GuiOthers>>

\* app_ui.py:944-970  process_wrapper ends, with or without a correction,
\* with a result or an exception: on_success / on_error go to root.after
Finish(w) ==
    /\ wk[w] \in {"pipeline", "resumed"}
    /\ after_queue' = Append(after_queue, [call |-> "on_done", of |-> w])
    /\ wk' = [wk EXCEPT ![w] = "finished"]
    /\ UNCHANGED <<processing, ui_shown, wk_event, wk_result, correction_event,
                   events_set, correction_data, GuiOthers>>

\* the main loop runs the next root.after call: show_correction_ui
\* (app_ui.py:418-426) or on_success / on_error (app_ui.py:952, 963)
MainLoop ==
    /\ after_queue # <<>>
    /\ after_queue' = Tail(after_queue)
    /\ IF Head(after_queue).call = "show_correction_ui"
       THEN ui_shown' = TRUE /\ UNCHANGED processing
       ELSE processing' = FALSE /\ UNCHANGED ui_shown
    /\ UNCHANGED <<wk, wk_event, wk_result, correction_event, events_set,
                   correction_data, GuiOthers>>

\* app_ui.py:630-649  apply_corrections / proceed_without_corrections:
\* proceed = True, hide the correction frame, self.correction_event.set()
apply_corrections ==
    /\ ui_shown
    /\ correction_data' = [correction_data EXCEPT !.proceed = TRUE]
    /\ ui_shown' = FALSE
    /\ events_set' = events_set \cup {correction_event}
    /\ UNCHANGED <<processing, wk, wk_event, wk_result, correction_event,
                   after_queue, GuiOthers>>

GuiInit ==
    /\ GuiStart
    /\ TwiceIdle /\ ClassifyIdle /\ WorkflowIdle
    /\ records = <<>> /\ runs = 0
    /\ group_pages = <<>> /\ gi = 0
    /\ current_record = <<>> /\ in_record = FALSE /\ gpc = "idle"
    /\ heap = <<>> /\ callerPages = <<>> /\ before = <<>>
    /\ pages = <<>> /\ i = 0 /\ phase = 0 /\ rpc = "idle" /\ visited = {}

GuiNext ==
    \/ run_processing
    \/ cancel_processing
    \/ \E w \in 1..MaxWorkers : NewEvent(w)
    \/ \E w \in 1..MaxWorkers : ScheduleUi(w)
    \/ \E w \in 1..MaxWorkers : Wait(w)
    \/ \E w \in 1..MaxWorkers : Resume(w)
    \/ \E w \in 1..MaxWorkers : Finish(w)
    \/ MainLoop
    \/ apply_corrections

SpecGui == GuiInit /\ [][GuiNext]_vars


\* =================================================================== claims

Range(l) == {l[k] : k \in DOMAIN l}
Types(l) == [k \in 1..Len(l) |-> l[k].page_type]
Numbers(l) == [k \in 1..Len(l) |-> l[k].page_number]

RECURSIVE ConcatAllPages(_)
\* the records' all_pages, concatenated in record order
ConcatAllPages(recs) ==
    IF recs = <<>> THEN <<>>
    ELSE all_pages(Head(recs)) \o ConcatAllPages(Tail(recs))

Buckets(record) ==
    <<record.historia_pages, record.cedula_pages,
      record.recibo_pages, record.unknown_pages>>

\* where page number n sits: <<record, bucket, position in the bucket>>
PlacesOf(n) ==
    {<<r, b, j>> \in (1..Len(records)) \X (1..4) \X (1..Len(group_pages)) :
        /\ j <= Len(Buckets(records[r])[b])
        /\ Buckets(records[r])[b][j] = n}

\* C1: when group_pages_into_patient_records has returned, every input page
\* number sits in exactly one bucket of exactly one record, and the records'
\* all_pages concatenated in record order are the input page numbers in order.
C1_Coverage ==
    gpc = "done" =>
        /\ \A k \in 1..Len(group_pages) :
              Cardinality(PlacesOf(group_pages[k].page_number)) = 1
        /\ ConcatAllPages(records) = Numbers(group_pages)

\* an input with a gap in its page numbers, grouped into several records, one
\* of which holds a page in a bucket listed before an earlier page's bucket
C1_Witness ==
    /\ gpc = "done"
    /\ Len(group_pages) = MaxGroupLen
    /\ Len(records) >= 2
    /\ \E k \in 1..Len(group_pages) : group_pages[k].page_number # k
    /\ \E r \in 1..Len(records) : all_pages_unsorted(records[r]) # all_pages(records[r])

\* C2: a step of the first apply_rules call taken with HISTORIA, HISTORIA,
\* UNKNOWN, RECIBO at i..i+3 leaves CEDULA at i+2 and the length unchanged,
\* also when i+3 is the last index.
C2_RuleAAtCursor ==
    [][ ( /\ rpc = "scan" /\ phase = 1
          /\ is_type(i, HISTORIA_CLINICA)
          /\ is_type(i + 1, HISTORIA_CLINICA)
          /\ is_unknown(i + 2)
          /\ is_type(i + 3, RECIBO) )
        => ( /\ Len(pages') = Len(pages)
             /\ heap'[At(pages', i + 2)].page_type = CEDULA ) ]_vars

\* C3: the list resolve returns has the length of the input and the same page
\* number at every position.
C3_SameLengthAndNumbers ==
    rpc = "returned" =>
        /\ Len(Returned) = Len(before)
        /\ \A k \in 1..Len(before) : Returned[k].page_number = before[k].page_number

\* resolve has returned after rule H exchanged two categories
C3_Witness ==
    /\ rpc = "returned"
    /\ \E k \in 1..(Len(before) - 2) :
          /\ Types(before)[k] = HISTORIA_CLINICA
          /\ Types(before)[k + 1] = RECIBO /\ Types(before)[k + 2] = CEDULA
          /\ Types(Returned)[k + 1] = CEDULA /\ Types(Returned)[k + 2] = RECIBO

\* C4: after resolve_unknown_page_types has returned, every page of the
\* caller's list has the category it had when the call was made.
C4_CallerPagesUntouched ==
    rpc = "returned" =>
        \A k \in 1..Len(callerPages) : CallerNow[k].page_type = before[k].page_type

Complete4(record) ==
    /\ record.historia_pages # <<>> /\ record.cedula_pages # <<>>
    /\ record.recibo_pages # <<>> /\ record.unknown_pages = <<>>

\* C5 as stated: after validate, a record with history, identity and bill pages
\* and no unknown page has no issue and has_issues false, whatever the sizes.
C5_AnySizes ==
    runs >= 1 =>
        \A k \in 1..Len(records) :
            Complete4(records[k]) =>
                records[k].issues = <<>> /\ ~has_issues(records[k])

\* C5 amended: after validate, a record with 1 or 2 history pages, exactly 1
\* identity page, 1 or 2 bill pages and no unknown page has an empty issues
\* list and has_issues false.
C5_WithinLimits ==
    runs >= 1 =>
        \A k \in 1..Len(records) :
            ( /\ Complete4(records[k])
              /\ Len(records[k].historia_pages) <= 2
              /\ Len(records[k].cedula_pages) = 1
              /\ Len(records[k].recibo_pages) <= 2 )
            => records[k].issues = <<>> /\ ~has_issues(records[k])

\* a validated record with 2 history pages, 1 identity page and 2 bill pages
C5_Witness ==
    /\ runs >= 1
    /\ \E k \in 1..Len(records) :
          /\ Complete4(records[k])
          /\ Len(records[k].historia_pages) = 2
          /\ Len(records[k].cedula_pages) = 1
          /\ Len(records[k].recibo_pages) = 2
          /\ ~has_issues(records[k])

WithoutUnknown(record) == [record EXCEPT !.unknown_pages = <<>>]
Occurrences(l, x) == Cardinality({k \in DOMAIN l : l[k] = x})
Without(l, x) == SelectSeq(l, LAMBDA y : y # x)

\* C6 as stated: after validate, a record with unknown pages has the issues
\* list the same record has with its unknown bucket emptied.
C6_NoUnknownIssue ==
    runs >= 1 =>
        \A k \in 1..Len(records) :
            records[k].unknown_pages # <<>> =>
                records[k].issues = ValidateRecord(WithoutUnknown(records[k])).issues

\* C6 amended: after validate, a record with N > 0 unknown pages holds the
\* issue "Contains N UNKNOWN pages" exactly once, right after the issues about
\* missing document types; the rest of its issues list is the list of the same
\* record with its unknown bucket emptied, and has_issues is true.
C6_OneUnknownIssue ==
    runs >= 1 =>
        \A k \in 1..Len(records) :
            records[k].unknown_pages # <<>> =>
                LET msg == MsgUnknown(Len(records[k].unknown_pages))
                    iss == records[k].issues
                IN  /\ Occurrences(iss, msg) = 1
                    /\ \A a, b \in DOMAIN iss :
                          (iss[a] = msg /\ b < a) =>
                              iss[b] \in {MsgMissingHistoria, MsgMissingCedula,
                                          MsgMissingRecibo}
                    /\ \A a, b \in DOMAIN iss :
                          (iss[a] = msg /\ b > a) =>
                              iss[b] \notin {MsgMissingHistoria, MsgMissingCedula,
                                             MsgMissingRecibo}
                    /\ Without(iss, msg) =
                          ValidateRecord(WithoutUnknown(records[k])).issues
                    /\ has_issues(records[k])

\* a validated record with one unknown page, whose unknown-pages issue stands
\* between a missing-document issue and a later issue
C6_Witness ==
    /\ runs >= 1
    /\ \E k \in 1..Len(records) :
          /\ Len(records[k].unknown_pages) = 1
          /\ \E a \in 2..(Len(records[k].issues) - 1) :
                records[k].issues[a] = MsgUnknown(1)


\* ---- record boundaries, read off the returned records
\* the record that holds the page at input position k (1-based)
RecordHolding(k) ==
    CHOOSE r \in 1..Len(records) :
        group_pages[k].page_number \in Range(all_pages(records[r]))

BoundaryBefore(k) == k > 1 /\ RecordHolding(k) # RecordHolding(k - 1)

\* the input positions of the record that is open when page k is reached:
\* from the last boundary before k up to k - 1
OpenBefore(k) ==
    {j \in 1..(k - 1) : \A m \in (j + 1)..(k - 1) : ~BoundaryBefore(m)}

OpenCount(k, T) ==
    Cardinality({j \in OpenBefore(k) : group_pages[j].page_type \in T})

\* C7: in the returned records, a boundary lies immediately before a page iff
\* the page is HISTORIA and the record open at that page holds at least 2
\* history pages, or at least 1 history page and at least 1 identity or bill
\* page; CEDULA, RECIBO and UNKNOWN pages never start a record after the first.
C7_BoundaryIff ==
    gpc = "done" =>
        \A k \in 2..Len(group_pages) :
            BoundaryBefore(k) <=>
                /\ group_pages[k].page_type = HISTORIA_CLINICA
                /\ \/ OpenCount(k, {HISTORIA_CLINICA}) >= 2
                   \/ /\ OpenCount(k, {HISTORIA_CLINICA}) >= 1
                      /\ OpenCount(k, {CEDULA, RECIBO}) >= 1

\* a grouping with a boundary of each kind (after 2 history pages; after a
\* history page and an identity or bill page) and a history page that joins
C7_Witness ==
    /\ gpc = "done"
    /\ \E k \in 2..Len(group_pages) :
          BoundaryBefore(k) /\ OpenCount(k, {HISTORIA_CLINICA}) >= 2
    /\ \E k \in 2..Len(group_pages) :
          BoundaryBefore(k) /\ OpenCount(k, {HISTORIA_CLINICA}) = 1
    /\ \E k \in 2..Len(group_pages) :
          group_pages[k].page_type = HISTORIA_CLINICA /\ ~BoundaryBefore(k)

HHIBH == <<HISTORIA_CLINICA, HISTORIA_CLINICA, CEDULA, RECIBO, HISTORIA_CLINICA>>

\* C8: HISTORIA, HISTORIA, CEDULA, RECIBO, HISTORIA is grouped into exactly two
\* records: the first holds the two history pages, the identity page and the
\* bill page, the second holds the last history page alone.
C8_TwoRecords ==
    (gpc = "done" /\ Types(group_pages) = HHIBH) =>
        LET n == Numbers(group_pages)
        IN  /\ Len(records) = 2
            /\ Buckets(records[1]) = << <<n[1], n[2]>>, <<n[3]>>, <<n[4]>>, <<>> >>
            /\ Buckets(records[2]) = << <<n[5]>>, <<>>, <<>>, <<>> >>

C8_Witness ==
    /\ gpc = "done" /\ Types(group_pages) = HHIBH
    /\ Len(records) = 2
    /\ records[2].historia_pages = <<group_pages[5].page_number>>

\* the count of pages in each bucket
NHistoria(record) == Len(record.historia_pages)
NCedula(record)   == Len(record.cedula_pages)
NRecibo(record)   == Len(record.recibo_pages)
NUnknown(record)  == Len(record.unknown_pages)

\* the nine structural issues: string and the condition the claim gives
NineIssues(record) ==
    { <<MsgMissingHistoria, NHistoria(record) = 0>>,
      <<MsgMissingCedula, NCedula(record) = 0>>,
      <<MsgMissingRecibo, NRecibo(record) = 0>>,
      <<MsgTooManyHistoria, NHistoria(record) > 2>>,
      <<MsgTooManyCedula, NCedula(record) > 1>>,
      <<MsgTooManyRecibo, NRecibo(record) > 2>>,
      <<MsgCedulaNoHistoria, NCedula(record) > 0 /\ NHistoria(record) = 0>>,
      <<MsgReciboNoHistoria, NRecibo(record) > 0 /\ NHistoria(record) = 0>>,
      <<MsgReciboNoCedula, NRecibo(record) > 0 /\ NCedula(record) = 0>> }

NineEmittedExactly(record) ==
    \A c \in NineIssues(record) :
        Occurrences(record.issues, c[1]) = (IF c[2] THEN 1 ELSE 0)

\* C9 as stated: after validate, each of the nine structural issues is in the
\* record's list exactly when its condition holds, and the list holds no other
\* string.
C9_NineAndNoOther ==
    runs >= 1 =>
        \A k \in 1..Len(records) :
            /\ NineEmittedExactly(records[k])
            /\ Range(records[k].issues) \subseteq
                  {c[1] : c \in NineIssues(records[k])}

\* C9 amended: after validate, each of the nine structural issues is in the
\* record's list exactly when its condition holds, and the only other string a
\* list can hold is "Contains N UNKNOWN pages", present exactly when the record
\* holds N > 0 unknown pages.
C9_NinePlusUnknown ==
    runs >= 1 =>
        \A k \in 1..Len(records) :
            /\ NineEmittedExactly(records[k])
            /\ Occurrences(records[k].issues, MsgUnknown(NUnknown(records[k])))
                  = (IF NUnknown(records[k]) > 0 THEN 1 ELSE 0)
            /\ Range(records[k].issues) \subseteq
                  {c[1] : c \in NineIssues(records[k])}
                  \cup {MsgUnknown(NUnknown(records[k]))}

\* a validated record with more than 2 bill pages and neither history nor
\* identity pages: it holds the bill issues and not the identity one
C9_Witness ==
    /\ runs >= 1
    /\ \E k \in 1..Len(records) :
          /\ NHistoria(records[k]) = 0 /\ NCedula(records[k]) = 0
          /\ NRecibo(records[k]) > 2
          /\ {MsgReciboNoCedula, MsgReciboNoHistoria, MsgTooManyRecibo}
                \subseteq Range(records[k].issues)
          /\ MsgCedulaNoHistoria \notin Range(records[k].issues)

\* C10: after one or more validate runs, whatever the issues lists held at
\* first, every record's issues list is the list one run gives the same record
\* starting from an empty issues list.
C10_NoAccumulation ==
    runs >= 1 =>
        \A k \in 1..Len(records) :
            records[k].issues =
                ValidateRecord([records[k] EXCEPT !.issues = <<>>]).issues

\* validate has run twice on a list whose records have issues
C10_Witness ==
    /\ runs = MaxRuns
    /\ Len(records) = MaxRecords
    /\ \A k \in 1..Len(records) : Len(records[k].issues) >= 2


\* ------------------------------------------------------- resolve, C11..C13

\* the apply_rules iterations of the first call (rules A to G) that found
\* HISTORIA, HISTORIA, UNKNOWN, UNKNOWN, HISTORIA at i..i+4: their cursors i
RuleBCursors ==
    {v[2] : v \in {w \in visited :
        /\ w[1] = 1
        /\ w[2] + 5 <= Len(w[3])
        /\ SubSeq(w[3], w[2] + 1, w[2] + 5) =
              <<HISTORIA_CLINICA, HISTORIA_CLINICA, UNKNOWN, UNKNOWN, HISTORIA_CLINICA>>}}

HHUUH == <<HISTORIA_CLINICA, HISTORIA_CLINICA, UNKNOWN, UNKNOWN, HISTORIA_CLINICA>>

\* C11: from the iteration that finds HISTORIA, HISTORIA, UNKNOWN, UNKNOWN,
\* HISTORIA at the Phase-1 cursor i on, index i+2 is CEDULA and index i+3 is
\* RECIBO, in every later state up to and including the returned list; the
\* input HHUUH returns as HISTORIA, HISTORIA, CEDULA, RECIBO, HISTORIA.
C11_RuleBHolds ==
    /\ \A c \in RuleBCursors :
          /\ heap[At(pages, c + 2)].page_type = CEDULA
          /\ heap[At(pages, c + 3)].page_type = RECIBO
    /\ (rpc = "returned" /\ Types(before) = HHUUH) =>
          Types(Returned) =
              <<HISTORIA_CLINICA, HISTORIA_CLINICA, CEDULA, RECIBO, HISTORIA_CLINICA>>

\* resolve has returned after rule B acted at a cursor other than 0
C11_Witness ==
    /\ rpc = "returned"
    /\ \E c \in RuleBCursors : c > 0

HasTriple(ts, a, b, c) ==
    \E k \in 1..(Len(ts) - 2) : ts[k] = a /\ ts[k + 1] = b /\ ts[k + 2] = c

\* C12: the returned list never holds HISTORIA, RECIBO, CEDULA on three
\* consecutive pages; the input HISTORIA, RECIBO, CEDULA returns as HISTORIA,
\* CEDULA, RECIBO.
C12_NoSwappedTriple ==
    rpc = "returned" =>
        /\ ~HasTriple(Types(Returned), HISTORIA_CLINICA, RECIBO, CEDULA)
        /\ Types(before) = <<HISTORIA_CLINICA, RECIBO, CEDULA>> =>
              Types(Returned) = <<HISTORIA_CLINICA, CEDULA, RECIBO>>

\* resolve has returned on an input that held the swapped triple twice
C12_Witness ==
    /\ rpc = "returned"
    /\ \E a, b \in 1..(Len(before) - 2) :
          /\ a + 3 <= b
          /\ SubSeq(Types(before), a, a + 2) = <<HISTORIA_CLINICA, RECIBO, CEDULA>>
          /\ SubSeq(Types(before), b, b + 2) = <<HISTORIA_CLINICA, RECIBO, CEDULA>>

\* a CEDULA, CEDULA pair at 0-based k, k+1 of ts with a HISTORIA among the up
\* to 3 positions before k
DuplicateCedulaAt(ts, k) ==
    /\ k + 2 <= Len(ts)
    /\ ts[k + 1] = CEDULA /\ ts[k + 2] = CEDULA
    /\ \E j \in 0..(k - 1) : j >= k - 3 /\ ts[j + 1] = HISTORIA_CLINICA

\* C13: the returned list holds no CEDULA, CEDULA pair with a HISTORIA page
\* among the up to 3 positions before it.
C13_NoDuplicateCedula ==
    rpc = "returned" =>
        \A k \in 0..Len(pages) : ~DuplicateCedulaAt(Types(Returned), k)

\* resolve has returned on an input with two such pairs, the second one
\* starting where a match of the first moves the cursor
C13_Witness ==
    /\ rpc = "returned"
    /\ \E k \in 0..Len(pages) :
          /\ DuplicateCedulaAt(Types(before), k)
          /\ DuplicateCedulaAt(Types(before), k + 2)
          /\ Types(Returned)[k + 2] = RECIBO
          /\ Types(Returned)[k + 4] = RECIBO

\* ------------------------------------------------------------ resolve, C20

\* C20: a second call of resolve on new tokens with the categories of the
\* first call's input returns the categories the first call returned, whatever
\* the page numbers; with the same page numbers it returns equal tokens.
C20_SameResult ==
    (run = 2 /\ rpc = "returned") =>
        /\ Types(Returned) = Types(first_result)
        /\ Numbers(before) = Numbers(first_result) => Returned = first_result

\* the second call has returned a list that differs from its input in at least
\* two places, on page numbers moved by one
C20_Witness ==
    /\ run = 2 /\ rpc = "returned"
    /\ Numbers(before) # Numbers(first_result)
    /\ Cardinality({k \in 1..Len(before) : Returned[k] # before[k]}) >= 2

\* ------------------------------------------------------ classify_page, C19

\* the indicators of a list that are found in the normalized text
Found(indicators) ==
    {ind \in Range(indicators) : str_in(ind, normalize_string(text))}

\* the categories in priority order, each with its indicator list
Priority ==
    <<[type |-> HISTORIA_CLINICA, indicators |-> historia_indicators],
      [type |-> CEDULA, indicators |-> cedula_indicators],
      [type |-> RECIBO, indicators |-> recibo_indicators]>>

\* C19: classify_page returns the first category, in the order HISTORIA,
\* CEDULA, RECIBO, one of whose indicators is found in the normalized text,
\* with that category's found indicators and no others as matched_indicators;
\* it returns UNKNOWN, with no matched indicator and confidence 0, exactly when
\* no indicator of any category is found.
C19_FirstCategoryWins ==
    cpc = "returned" =>
        /\ \A c \in 1..3 :
              (/\ Found(Priority[c].indicators) # {}
               /\ \A b \in 1..(c - 1) : Found(Priority[b].indicators) = {})
              => /\ result.page_type = Priority[c].type
                 /\ Range(result.matched_indicators) = Found(Priority[c].indicators)
        /\ (\A c \in 1..3 : Found(Priority[c].indicators) = {})
              <=> result.page_type = UNKNOWN
        /\ result.page_type = UNKNOWN
              => result.matched_indicators = <<>> /\ result.confidence_score.num = 0
        /\ text = "Historia Clínica " => result.matched_indicators = <<"historia clinica">>

\* a text with indicators of two categories has been classified as the earlier
\* one, and a text with indicators of the last category only as that one
C19_Witness ==
    /\ cpc = "returned"
    /\ \/ /\ result.page_type = HISTORIA_CLINICA
          /\ Found(cedula_indicators) # {}
       \/ /\ result.page_type = CEDULA
          /\ Found(recibo_indicators) # {}

\* ------------------------------------- split_main_pdf_into_folders, C14..C18

\* the points of the pipeline: pages classified, pages resolved, pages back
\* from the correction callback
AfterClassification == wpc = "export"
AfterResolve        == wpc = "group" /\ gpc = "start"
AfterCorrected      == wpc = "corrected"

\* C14: after classification, after resolve and after a human correction,
\* every page's matched_indicators is empty if and only if its page_type is
\* UNKNOWN.
C14_IndicatorsMatchCategory ==
    (AfterClassification \/ AfterResolve \/ AfterCorrected) =>
        \A k \in 1..Len(wf_pages) :
            heap[wf_pages[k]].matched_indicators = <<>>
                <=> heap[wf_pages[k]].page_type = UNKNOWN

\* the calls of the grouper and the validator made after the callback returned
Rerun ==
    LET k     == CHOOSE k \in 1..Len(log) : log[k] = "correction_callback"
        rerun(e) == e \in {"group_pages_into_patient_records", "validate_patient_records"}
    IN  SelectSeq(SubSeq(log, k + 1, Len(log)), rerun)

CallbackReturned == \E k \in 1..Len(log) : log[k] = "correction_callback"

OnceEach == <<"group_pages_into_patient_records", "validate_patient_records">>

\* C15 as stated: whatever the callback returned, when the function goes on to
\* the record-count check the grouper and then the validator have run exactly
\* once since the callback returned.
C15_AlwaysRerun ==
    (CallbackReturned /\ wpc \in {"count", "extract", "done"}) => Rerun = OnceEach

\* C15, amended: when the callback returned a non-empty dict, the grouper and
\* then the validator have run exactly once, on the list under 'pages' (on the
\* list handed to the callback when there is no such key), before the function
\* goes on or halts; when it returned None or an empty dict neither has run
\* again.
C15_RerunOnResult ==
    (CallbackReturned /\ wpc \in {"count", "extract", "done", "halted"}) =>
        IF ~corrected_data.is_none /\ DOMAIN corrected_data.items # {}
        THEN /\ Rerun = OnceEach
             /\ runs = 2
             /\ group_pages =
                   Deref(heap, IF "pages" \in DOMAIN corrected_data.items
                               THEN corrected_data.items["pages"] ELSE pages)
        ELSE Rerun = <<>> /\ runs = 1

\* the callback returned a list in another order with proceed = True, and the
\* records were built again from it
C15_Witness ==
    /\ CallbackReturned /\ wpc = "count"
    /\ "pages" \in DOMAIN corrected_data.items
    /\ corrected_data.items["pages"] # pages
    /\ Len(records) >= 2

ProceedFalse ==
    /\ ~corrected_data.is_none
    /\ "proceed" \in DOMAIN corrected_data.items
    /\ corrected_data.items["proceed"] = FALSE

\* C16: once the callback has returned proceed = False, the record-count check
\* and the extraction are never reached and no record is extracted.
C16_NoExtractionAfterAbort ==
    (CallbackReturned /\ ProceedFalse) =>
        /\ wpc \in {"corrected", "regroup", "halted"}
        /\ extracted = <<>>
        /\ \A k \in 1..Len(log) :
              log[k] \notin {"_validate_record_count", "extract_patient_record"}

\* the function has returned early after a callback that returned
\* proceed = False and nothing else, with records at hand
C16_Witness ==
    /\ wpc = "halted" /\ ProceedFalse
    /\ DOMAIN corrected_data.items = {"proceed"}
    /\ records # <<>>

\* page numbers that go up by one from page to page
Contiguous(ns) == \A k \in 1..(Len(ns) - 1) : ns[k + 1] = ns[k] + 1

\* C18: neither resolve nor the grouper is ever given a list whose page
\* numbers are not contiguous and increasing.
C18_MalformedRejected ==
    /\ rpc # "idle" => Contiguous(Numbers(before))
    /\ gpc # "idle" => Contiguous(Numbers(group_pages))

\* ---------------------------------------------------------- PDFApp, C17

\* the workers inside handle_record_correction
InCorrection == {w \in 1..MaxWorkers : wk[w] \in {"event", "scheduled", "waiting"}}

\* C17: at most one worker is inside handle_record_correction at any time,
\* and a waiting worker blocks on the Event self.correction_event holds.
C17_OneOutstanding ==
    /\ Cardinality(InCorrection) <= 1
    /\ \A w \in 1..MaxWorkers : wk[w] = "waiting" => wk_event[w] = correction_event

\* ------------------------------------------------------- resolve, C21..C30

\* the pages a rule call changed
Rewritten(r) == {k \in 0..(Len(pages) - 1) : r.heap[At(r.pages, k)] # heap[At(pages, k)]}

\* C21: on every list (the empty one and those shorter than a rule's window
\* included) and at every cursor, each of rule_a .. rule_j subscripts
\* self.pages only with indices in 0 .. len - 1, and changes only pages it
\* subscripts.
C21_SubscriptsInRange ==
    rpc = "rule" =>
        LET subs == rule_subscripts(i)
            rs == AllRules(i)
        IN  \A r \in 1..10 :
                /\ subs[r] \subseteq 0..(Len(pages) - 1)
                /\ Rewritten(rs[r]) \subseteq subs[r]

\* rule E has acted on the last four pages of a list (there is no page at
\* i + 4) and has rewritten the last one
C21_Witness ==
    /\ rpc = "index" /\ phase = 5
    /\ i = Len(pages) - 1
    /\ Types(before)[Len(pages)] = CEDULA
    /\ Types(Returned)[Len(pages)] = RECIBO

\* the cursors of the iterations apply_rules made in phase p
CursorsOf(p) == {v[2] : v \in {w \in visited : w[1] = p}}

\* C22: within one apply_rules call every iteration starts with the cursor
\* before the end of the list and leaves it strictly further on and never
\* beyond the end: by one when no rule of the phase matches, to the index the
\* matching rule returns otherwise; the list keeps its length; and with the
\* cursor at the end the call is over (the next phase starts at 0, or resolve
\* returns). So a phase makes at most len iterations.
C22_CursorAdvances ==
    [][ rpc = "scan" =>
           IF rpc' = "scan" /\ phase' = phase
           THEN /\ i < Len(pages)
                /\ i' > i /\ i' <= Len(pages)
                /\ Len(pages') = Len(pages)
                /\ (\A r \in 1..Len(RulesOfPhase(phase, i)) :
                       ~RulesOfPhase(phase, i)[r].matched) => i' = i + 1
                /\ \A r \in 1..Len(RulesOfPhase(phase, i)) :
                       RulesOfPhase(phase, i)[r].matched => RulesOfPhase(phase, i)[r].next > i
           ELSE /\ i >= Len(pages)
                /\ \/ rpc' = "scan" /\ phase' = phase + 1 /\ i' = 0
                   \/ rpc' = "returned" /\ phase = 4 ]_vars

\* the phases in which a rule matched and the cursor jumped over a page
Jumped ==
    {p \in 1..4 : \E c \in 0..(Len(pages) - 2) :
                     c \in CursorsOf(p) /\ c + 1 \notin CursorsOf(p)}

\* resolve has returned from a list of the greatest length after four phases,
\* in the first and in two later ones of which the cursor jumped
C22_Witness ==
    /\ rpc = "returned"
    /\ Len(pages) = MaxResolveLen
    /\ 1 \in Jumped /\ Cardinality(Jumped) >= 3

\* ------------------------------------- split_main_pdf_into_folders, C23, C24

\* the places in the call log l where the correction callback was called
CallbackCalls(l) ==
    {k \in 1..Len(l) : l[k] \in {"correction_callback", "correction_callback raises"}}

\* C23: in one run the correction callback is called at most once; the call
\* comes right after validate_patient_records has run on the records, and at
\* least one of these records then has an issue or an unknown page.
C23_CallbackOnceOnIssues ==
    [][ /\ Cardinality(CallbackCalls(log')) <= 1
        /\ CallbackCalls(log') # CallbackCalls(log) =>
              /\ log # <<>> /\ log[Len(log)] = "validate_patient_records"
              /\ runs = 1
              /\ \E k \in 1..Len(records) :
                    Len(records[k].issues) > 0 \/ Len(records[k].unknown_pages) > 0 ]_vars

\* the callback was called once and has returned, on two validated records
\* with issues
C23_Witness ==
    /\ wpc = "corrected"
    /\ Cardinality(CallbackCalls(log)) = 1
    /\ Len(records) = 2
    /\ \A k \in 1..2 : Len(records[k].issues) > 0

\* the correction callback was called and raised
CallbackRaised == \E k \in 1..Len(log) : log[k] = "correction_callback raises"

\* C24: once the correction callback has raised, the function has left with a
\* RuntimeError, the raising call is the last call it made, and no patient
\* record has been or will be extracted.
C24_CallbackFailureRaises ==
    CallbackRaised =>
        /\ wpc = "raised"
        /\ log[Len(log)] = "correction_callback raises"
        /\ extracted = <<>>
        /\ \A k \in 1..Len(log) : log[k] # "extract_patient_record"

\* the callback raised on two validated records
C24_Witness ==
    /\ CallbackRaised
    /\ wpc = "raised"
    /\ Len(records) = 2

\* the category page k (1-based) had when resolve was called, and has now
Was(k) == before[k].page_type
Now(k) == heap[pages[k]].page_type

InPhase1 == rpc = "scan" /\ phase = 1

\* C25 as stated: all through Phase 1, every page that was not UNKNOWN when
\* the phase started has the category it had then.
C25_OnlyUnknownChanges ==
    InPhase1 => \A k \in 1..Len(pages) : Was(k) # UNKNOWN => Now(k) = Was(k)

\* C25, amended: all through Phase 1 every HISTORIA and every RECIBO page has
\* the category it started with, and a CEDULA page either has it too or is now
\* RECIBO, stands right after HISTORIA, HISTORIA, UNKNOWN (the window of rules
\* D and E) and the UNKNOWN before it is now CEDULA.
C25_OnlyHolesAndCedulaAfterHole ==
    InPhase1 =>
        \A k \in 1..Len(pages) :
            /\ Was(k) \in {HISTORIA_CLINICA, RECIBO} => Now(k) = Was(k)
            /\ Was(k) = CEDULA =>
                  \/ Now(k) = CEDULA
                  \/ /\ Now(k) = RECIBO
                     /\ k >= 4
                     /\ Was(k - 3) = HISTORIA_CLINICA /\ Was(k - 2) = HISTORIA_CLINICA
                     /\ Was(k - 1) = UNKNOWN /\ Now(k - 1) = CEDULA

\* Phase 1 is over and has turned a CEDULA page into RECIBO
C25_Witness ==
    /\ InPhase1 /\ i >= Len(pages)
    /\ \E k \in 1..Len(pages) : Was(k) = CEDULA /\ Now(k) = RECIBO

\* C26: resolve called on the list a first resolve returned changes no
\* category of it.
C26_FixedPoint ==
    (run = 2 /\ rpc = "returned") => Types(Returned) = Types(first_result)


\* C26, amended: when the list a first resolve returned holds no UNKNOWN page,
\* resolve called on it changes no category of it.
C26_FixedPointWithoutUnknown ==
    (run = 2 /\ rpc = "returned"
       /\ \A k \in 1..Len(first_result) : first_result[k].page_type # UNKNOWN) =>
        Types(Returned) = Types(first_result)

\* a second resolve has returned on a list without UNKNOWN pages that the
\* first resolve had rewritten in Phase 1 and in a later phase
C26_Witness ==
    /\ run = 2 /\ rpc = "returned"
    /\ Len(first_result) = MaxTwiceLen
    /\ \A k \in 1..Len(first_result) : first_result[k].page_type # UNKNOWN
    /\ \E k \in 1..Len(pages) : Types(Returned)[k] = RECIBO
    /\ \E k \in 1..Len(pages) : Types(Returned)[k] = CEDULA

\* C27: from the first iteration to the returned list, the pages that are
\* HISTORIA are those that were HISTORIA when resolve was called, and every
\* page that is UNKNOWN was UNKNOWN then.
C27_HistoriaFixedNoNewUnknown ==
    rpc \in {"scan", "returned"} =>
        \A k \in 1..Len(pages) :
            /\ Now(k) = HISTORIA_CLINICA <=> Was(k) = HISTORIA_CLINICA
            /\ Now(k) = UNKNOWN => Was(k) = UNKNOWN

\* resolve has returned a list with a HISTORIA page and an UNKNOWN page after
\* rewriting an UNKNOWN page and a page that was not UNKNOWN
C27_Witness ==
    /\ rpc = "returned"
    /\ \E k \in 1..Len(pages) : Now(k) = HISTORIA_CLINICA
    /\ \E k \in 1..Len(pages) : Now(k) = UNKNOWN
    /\ \E k \in 1..Len(pages) : Was(k) = UNKNOWN /\ Now(k) # UNKNOWN
    /\ \E k \in 1..Len(pages) : Was(k) # UNKNOWN /\ Now(k) # Was(k)

\* the Phase-1 rules (1 = rule_a .. 7 = rule_g) that return an index at cursor k
Phase1Matches(k) == {r \in 1..7 : RulesOfPhase(1, k)[r].matched}

\* C28: on every list and at every cursor at most one of rule_a .. rule_g
\* returns an index, so whatever the order in which apply_rules tries them,
\* the rule that acts, the pages it rewrites and the index it returns are the
\* same.
C28_OnePhase1RuleAtMost ==
    rpc = "rule" =>
        /\ Cardinality(Phase1Matches(i)) <= 1
        /\ \A r, q \in Phase1Matches(i) : RulesOfPhase(1, i)[r] = RulesOfPhase(1, i)[q]

\* rule D has acted on HISTORIA, HISTORIA, UNKNOWN, CEDULA, RECIBO, the window
\* rule E leaves to it
C28_Witness ==
    /\ rpc = "index" /\ phase = 4
    /\ i = 4
    /\ Types(before) = <<HISTORIA_CLINICA, HISTORIA_CLINICA, UNKNOWN, CEDULA, RECIBO>>
    /\ Types(Returned) = <<HISTORIA_CLINICA, HISTORIA_CLINICA, CEDULA, RECIBO, RECIBO>>

\* C29: all through Phases 1, 2 and 3, two consecutive pages that are both
\* CEDULA were both CEDULA when resolve was called; so the pair rule I finds
\* at its cursor, and the page it turns into RECIBO, are pages no earlier rule
\* has rewritten.
C29_CedulaPairsAreOriginal ==
    (rpc = "scan" /\ phase \in 1..3) =>
        \A k \in 1..(Len(pages) - 1) :
            (Now(k) = CEDULA /\ Now(k + 1) = CEDULA) =>
                (Was(k) = CEDULA /\ Was(k + 1) = CEDULA)

\* rule I is about to turn the second page of a pair into RECIBO, in a list
\* of which an earlier phase has rewritten a page
C29_Witness ==
    /\ rpc = "scan" /\ phase = 3
    /\ i < Len(pages)
    /\ rule_i(i).matched /\ has_historia_before(i)
    /\ \E k \in 1..Len(pages) : Was(k) # Now(k)

\* CEDULA, RECIBO, CEDULA at 0-based k, k+1, k+2 of ts with a HISTORIA among
\* the up to 3 positions before k
CedulaReciboCedulaAt(ts, k) ==
    /\ k + 3 <= Len(ts)
    /\ ts[k + 1] = CEDULA /\ ts[k + 2] = RECIBO /\ ts[k + 3] = CEDULA
    /\ \E j \in 0..(k - 1) : j >= k - 3 /\ ts[j + 1] = HISTORIA_CLINICA

\* the Phase-4 cursors at which apply_rules found such a window
RuleJCursors ==
    {v[2] : v \in {w \in visited : w[1] = 4 /\ CedulaReciboCedulaAt(w[3], w[2])}}

\* C30: the returned list holds no CEDULA, RECIBO, CEDULA with a HISTORIA page
\* among the up to 3 positions before it, and the last page of every such
\* window Phase 4 came upon is RECIBO from then on.
C30_NoCedulaReciboCedula ==
    /\ rpc = "returned" =>
          \A k \in 0..Len(pages) : ~CedulaReciboCedulaAt(Types(Returned), k)
    /\ \A c \in RuleJCursors : Now(c + 3) = RECIBO

\* resolve has returned after rule J rewrote the last page of the list, the
\* end of a window whose only HISTORIA stands three pages before it
C30_Witness ==
    /\ rpc = "returned"
    /\ \E c \in RuleJCursors :
          /\ c + 3 = Len(pages)
          /\ c >= 3
          /\ Now(c - 2) = HISTORIA_CLINICA
          /\ Now(c - 1) # HISTORIA_CLINICA /\ Now(c) # HISTORIA_CLINICA
          /\ Was(c + 3) = CEDULA

\* ------------------------------------------------ the grouper, C31..C33

\* C31: the record being filled and every record appended to the list hold at
\* most 2 HISTORIA pages, so "More than 2 HISTORIA CLINICA pages found" is
\* not among the issues validate gives a record the grouper returned.
C31_AtMostTwoHistoria ==
    gpc \in {"loop", "done"} =>
        /\ gpc = "loop" => Len(current_record.historia_pages) <= 2
        /\ \A r \in 1..Len(records) :
              /\ Len(records[r].historia_pages) <= 2
              /\ \A n \in 1..Len(ValidateRecord(records[r]).issues) :
                    ValidateRecord(records[r]).issues[n] # MsgTooManyHistoria

\* the grouper has returned from a list with three HISTORIA pages in a row:
\* two of them in one record, the third opening the next
C31_Witness ==
    /\ gpc = "done"
    /\ \E k \in 1..(Len(group_pages) - 2) :
          \A d \in 0..2 : group_pages[k + d].page_type = HISTORIA_CLINICA
    /\ \E r \in 1..(Len(records) - 1) :
          /\ Len(records[r].historia_pages) = 2
          /\ Len(records[r + 1].historia_pages) >= 1

\* the page numbers of a record, bucket after bucket
PagesOf(record) ==
    record.historia_pages \o record.cedula_pages \o
    record.recibo_pages \o record.unknown_pages

\* C32: the list the grouper returns holds no record without pages; in every
\* record after the first the page with the lowest number is a HISTORIA page
\* (so only the first record can be without HISTORIA pages); and from an empty
\* list it returns an empty list.
C32_RecordsStartWithHistoria ==
    gpc = "done" =>
        /\ \A r \in 1..Len(records) : PagesOf(records[r]) # <<>>
        /\ \A r \in 2..Len(records) :
              /\ records[r].historia_pages # <<>>
              /\ \A n \in 1..Len(PagesOf(records[r])) :
                    records[r].historia_pages[1] <= PagesOf(records[r])[n]
        /\ group_pages = <<>> => records = <<>>

\* the grouper has returned three records, the first of which begins with a
\* page that is not HISTORIA
C32_Witness ==
    /\ gpc = "done"
    /\ Len(records) = 3
    /\ group_pages[1].page_type # HISTORIA_CLINICA
    /\ Len(PagesOf(records[2])) >= 2

\* C33: after validate, a record has has_issues false exactly if it holds 1
\* or 2 HISTORIA pages, exactly 1 CEDULA page, 1 or 2 RECIBO pages and no
\* UNKNOWN page.
C33_NoIssuesIffWithinLimits ==
    runs >= 1 =>
        \A k \in 1..Len(records) :
            ~(Len(records[k].issues) > 0 \/ Len(records[k].unknown_pages) > 0)
            <=> /\ Len(records[k].historia_pages) \in 1..2
                /\ Len(records[k].cedula_pages) = 1
                /\ Len(records[k].recibo_pages) \in 1..2
                /\ Len(records[k].unknown_pages) = 0

\* a validated list whose first record is beyond the limits only by a second
\* CEDULA page and has that one issue
C33_Witness ==
    /\ runs >= 1
    /\ Len(records) = MaxRecords
    /\ Len(records[1].historia_pages) \in 1..2
    /\ Len(records[1].cedula_pages) = 2
    /\ Len(records[1].recibo_pages) \in 1..2
    /\ Len(records[1].unknown_pages) = 0
    /\ records[1].issues = <<MsgTooManyCedula>>

\* --------------------------- split_main_pdf_into_folders, C34 .. C38

\* the bucket of a record that takes pages of category t
BucketOf(record, t) ==
    CASE t = HISTORIA_CLINICA -> record.historia_pages
      [] t = CEDULA -> record.cedula_pages
      [] t = RECIBO -> record.recibo_pages
      [] t = UNKNOWN -> record.unknown_pages

\* the callback has returned a dict with a 'pages' list
ReturnedPages ==
    /\ CallbackReturned
    /\ ~corrected_data.is_none /\ "pages" \in DOMAIN corrected_data.items

\* C34: once the callback has returned a page list, resolve is not called
\* again, and from the record count on (so in all that is extracted) every
\* page of that list is in the bucket of the category it has in that list, and
\* in no other bucket of any record.
C34_CorrectedCategoriesKept ==
    ReturnedPages =>
        /\ \A k, n \in 1..Len(log) :
              (log[k] = "correction_callback" /\ n > k) =>
                  log[n] # "resolve_unknown_page_types"
        /\ wpc \in {"count", "extract", "done"} =>
              \A k \in 1..Len(corrected_data.items["pages"]) :
                  LET page == heap[corrected_data.items["pages"][k]]
                  IN  \A t \in PageType :
                          (\E r \in 1..Len(records) :
                              \E n \in 1..Len(BucketOf(records[r], t)) :
                                  BucketOf(records[r], t)[n] = page.page_number)
                          <=> t = page.page_type

\* records have been extracted after a callback that turned a page into
\* HISTORIA and handed the page list back
C34_Witness ==
    /\ wpc = "done" /\ extracted # <<>>
    /\ ReturnedPages
    /\ Len(corrected_data.items["pages"]) = MaxScanPages
    /\ \E k \in 1..Len(before) :
          /\ before[k].page_type # HISTORIA_CLINICA
          /\ heap[callerPages[k]].page_type = HISTORIA_CLINICA


\* ------------------------------------------ process_complete_workflow, C35
Completed == \E k \in 1..Len(log) : log[k] = "workflow_completed"

\* C35: once the callback has returned proceed = False, the caller of
\* process_complete_workflow never sees the 'workflow_completed' progress
\* event, that is, the run does not end as a successful one.
C35_AbortVisible == (CallbackReturned /\ ProceedFalse) => ~Completed


\* ---------------------------------------------- _extract_patient_records, C36
\* C36: when split_main_pdf_into_folders has returned from its last line (no
\* exception, no abort), every assembled record, and so every page of every
\* record, has been handed to extract_patient_record, whatever the number of
\* folder names.
C36_EveryRecordExtracted == wpc = "done" => extracted = records


\* ------------------------------------------------- the diagnostic writes, C37
\* C37: between the scan and the call of resolve_unknown_page_types the
\* function only writes diagnostics (the pickle export of the pages and the
\* first classification dump), so no step taken from there ends the function
\* with an exception: the outcome does not depend on whether a write failed.
C37_DiagnosticsNeverRaise == [][wpc = "export" => wpc' # "raised"]_vars


\* ------------------------------------------------------ scan_all_pages, C38
\* C38: while scan_all_pages runs, and after it has raised, no page list has
\* been returned and resolve has not been called; the list it returns, and
\* the one resolve_unknown_page_types is called with, holds one PageInfo for
\* every page 1..N, in that order.
C38_ScanAllOrNothing ==
    /\ (wpc = "scan" \/ (wpc = "raised" /\ log = <<>>)) =>
          wf_pages = <<>> /\ rpc = "idle" /\ before = <<>>
    /\ wpc = "export" =>
          /\ Len(wf_pages) = Len(heap)
          /\ \A k \in 1..Len(wf_pages) : heap[wf_pages[k]].page_number = k
    /\ rpc # "idle" => \A k \in 1..Len(before) : before[k].page_number = k

\* OCR failed on the third page, after two pages had been classified
C38_Witness ==
    /\ wpc = "raised" /\ log = <<>>
    /\ Len(heap) = 2 /\ wf_pages = <<>>


\* ----------------------------------------------------- cancel_processing, C39
\* the only worker started so far has not finished and self.processing is
\* False again: the user has confirmed cancel_processing for it
Cancelled(w) ==
    /\ ~processing
    /\ wk[w] \notin {"unborn", "finished"}
    /\ \A v \in 1..MaxWorkers : v # w => wk[v] = "unborn"

\* C39: once the user has confirmed cancel_processing, the worker thread takes
\* no further step of the pipeline: it requests no correction and does not go
\* on to the end of process_wrapper.
C39_CancelStopsWorker ==
    [][\A w \in 1..MaxWorkers : Cancelled(w) => wk'[w] = wk[w]]_vars

====
